---- MODULE Spec2Model ----
(***************************************************************************)
(* Model of the dota2-interactive-agent server: the profile evolution      *)
(* engine (services/memory.ts), the preference extractor                   *)
(* (services/profile.ts), the profile store and the chat handler's         *)
(* background task (routes), and the LLM provider gateway (services/llm).  *)
(*                                                                         *)
(* Strings are sequences of one-character strings, so that toLowerCase,    *)
(* trim, includes and concatenation are computed, not assumed.  null is    *)
(* the one-element sequence <<"null">>, which no string equals because     *)
(* every character of a string has length one.                             *)
(***************************************************************************)
EXTENDS Integers, Sequences, FiniteSets, TLC

VARIABLES
  \* sequential extract -> evolve -> persist pipeline (SpecEvolve)
  current,      \* the profile handed to evolveProfile
  reply,        \* what the extraction call produced (parsed JSON or a throw)
  extracted,    \* extractPreferences' record
  result,       \* evolveProfile(current, extracted)
  again,        \* evolveProfile of the updated profile and the same record
  pc,           \* position in the pipeline
  step,         \* extract-and-evolve rounds done
  \* chat requests and their background tasks (Spec)
  stored,       \* the user_profiles row of user 1
  reqPc,        \* per request: position of its background task
  snapshot,     \* per request: the profile getProfile returned
  reqExtracted, \* per request: the record its extraction produced
  reqEvolution, \* per request: the evolveProfile result of its task
  evolutions,   \* per request: number of evolveProfile calls of its task
  extractCalls, \* per request: number of extraction llm.chat calls of its task
  writes,       \* per request: number of updateProfile calls that wrote
  clock,        \* the database's datetime('now')
  \* provider gateway (SpecLLM)
  env,          \* the environment handed to createLLMService
  service,      \* the LLMService built from it, or the thrown error
  callPc,       \* position of one chat() call
  messages,     \* the message sequence handed to chat()
  request,      \* the JSON body chat() posted
  httpResp,     \* the provider's HTTP response
  chatOutcome,  \* what chat() returned or threw
  fetches,      \* number of fetch() calls the chat() call made
  \* one extractPreferences call (SpecExtract)
  completion,   \* what the extraction call's llm.chat returned or threw
  parseResult,  \* what JSON.parse returned or threw
  returned,     \* the record extractPreferences resolved to
  extractPc,    \* position in extractPreferences
  \* one rendering of the system prompt (SpecPrompt)
  promptProfile, \* the profile handed to buildPersonalizedPrompt
  prompt,       \* the text buildPersonalizedPrompt returned
  twinPrompt,   \* the text returned for a profile equal on the five fields
  hasData,      \* what hasProfileData returned
  promptPc,     \* position in the rendering
  \* the foreground path of the chat handler (SpecChat)
  serpApiKey,   \* the search API key the router was created with
  reqBody,      \* per request: the JSON body of the POST
  fgPc,         \* per request: position of the handler
  responses,    \* per request: the HTTP responses sent, in order
  serpResults,  \* per request: what searchWeb returned
  chatMessages, \* per request: the messages handed to llm.chat
  searchCalls,  \* per request: number of searchWeb calls
  chatCalls,    \* per request: number of foreground llm.chat calls
  notes,        \* per request: rows persistNotes inserted
  settled,      \* per request: how the handler's awaited calls settled, in order
  \* the web client and one request on its way to the provider (SpecClient,
  \* SpecHistory)
  uiMessages,   \* App: the messages state, [role, content] in order
  uiPc,         \* App: "idle", or "loading" while a request is out
  uiRequest,    \* the JSON body of the POST under way
  gatewayMessages, \* what the handler handed to llm.chat for it
  wire,         \* the messages array of the Anthropic request body sent for it
  sends         \* requests the client has sent

evolveVars == <<current, reply, extracted, result, again, pc, step>>
chatVars == <<stored, reqPc, snapshot, reqExtracted, reqEvolution, evolutions, extractCalls,
              writes, clock>>
llmVars == <<env, service, callPc, messages, request, httpResp, chatOutcome, fetches>>
extractVars == <<completion, parseResult, returned, extractPc>>
promptVars == <<promptProfile, prompt, twinPrompt, hasData, promptPc>>
handlerVars == <<serpApiKey, reqBody, fgPc, responses, serpResults, chatMessages,
                 searchCalls, chatCalls, notes, settled>>
clientVars == <<uiMessages, uiPc, uiRequest, gatewayMessages, wire, sends>>
vars == <<current, reply, extracted, result, again, pc, step,
          stored, reqPc, snapshot, reqExtracted, reqEvolution, evolutions, extractCalls,
          writes, clock,
          env, service, callPc, messages, request, httpResp, chatOutcome, fetches,
          completion, parseResult, returned, extractPc,
          promptProfile, prompt, twinPrompt, hasData, promptPc,
          serpApiKey, reqBody, fgPc, responses, serpResults, chatMessages,
          searchCalls, chatCalls, notes, settled,
          uiMessages, uiPc, uiRequest, gatewayMessages, wire, sends>>

\* what the actions of one specification leave alone
exceptEvolve == <<chatVars, handlerVars, llmVars, extractVars, promptVars, clientVars>>
exceptChat == <<evolveVars, handlerVars, llmVars, extractVars, promptVars, clientVars>>
exceptLLM == <<evolveVars, chatVars, handlerVars, extractVars, promptVars, clientVars>>
exceptExtract == <<evolveVars, chatVars, handlerVars, llmVars, promptVars, clientVars>>
exceptPrompt == <<evolveVars, chatVars, handlerVars, llmVars, extractVars, clientVars>>
exceptHandler == <<evolveVars, llmVars, extractVars, promptVars, clientVars>>
exceptClient == <<evolveVars, chatVars, handlerVars, llmVars, extractVars, promptVars>>

----------------------------------------------------------------------------
(* Bounds *)

\* extract-and-evolve rounds of the sequential pipeline
MaxSteps == 2
\* chat requests in flight together
MaxReqs == 2
\* seconds the database clock may advance
MaxClock == 1

----------------------------------------------------------------------------
(* Strings *)

NULL == <<"null">>

UpperChars == <<"A","B","C","D","E","F","G","H","I","J","K","L","M",
                "N","O","P","Q","R","S","T","U","V","W","X","Y","Z">>
LowerChars == <<"a","b","c","d","e","f","g","h","i","j","k","l","m",
                "n","o","p","q","r","s","t","u","v","w","x","y","z">>
WhiteSpace == {" ", "\t", "\n"}

toLowerChar(c) ==
  IF \E i \in DOMAIN UpperChars : UpperChars[i] = c
  THEN LowerChars[CHOOSE i \in DOMAIN UpperChars : UpperChars[i] = c]
  ELSE c

toLowerCase(s) == [i \in DOMAIN s |-> toLowerChar(s[i])]

\* String.prototype.includes: needle occurs as a contiguous substring
includes(hay, needle) ==
  \E i \in 0..(Len(hay) - Len(needle)) :
     SubSeq(hay, i + 1, i + Len(needle)) = needle

RECURSIVE trimStart(_)
trimStart(s) ==
  IF s # <<>> /\ Head(s) \in WhiteSpace THEN trimStart(Tail(s)) ELSE s

RECURSIVE trimEnd(_)
trimEnd(s) ==
  IF s # <<>> /\ s[Len(s)] \in WhiteSpace
  THEN trimEnd(SubSeq(s, 1, Len(s) - 1)) ELSE s

trim(s) == trimEnd(trimStart(s))

\* JavaScript truthiness of a value of type string | null | undefined
truthy(s) == s # NULL /\ s # <<>>

Range(s) == {s[i] : i \in DOMAIN s}
IsPrefix(p, s) == Len(p) <= Len(s) /\ SubSeq(s, 1, Len(p)) = p

\* the string literals the model uses
sAxe == <<"A","x","e">>
sAxeLower == <<"a","x","e">>
sLina == <<"L","i","n","a">>
sCarry == <<"c","a","r","r","y">>
sCarryCap == <<"C","a","r","r","y">>
sMid == <<"m","i","d">>
sOfflane == <<"o","f","f","l","a","n","e">>
sSoftSupport == <<"s","o","f","t"," ","s","u","p","p","o","r","t">>
sHardSupport == <<"h","a","r","d"," ","s","u","p","p","o","r","t">>
sSupport == <<"s","u","p","p","o","r","t">>
sJungler == <<"j","u","n","g","l","e","r">>
sHerald == <<"H","e","r","a","l","d">>
sArchon == <<"A","r","c","h","o","n">>
sAggressive == <<"a","g","g","r","e","s","s","i","v","e">>
sAggressiveCap == <<"A","g","g","r","e","s","s","i","v","e">>
sFarming == <<"f","a","r","m","i","n","g">>
sLastHit == <<"l","a","s","t"," ","h","i","t">>
sLastHitCap == <<"L","a","s","t"," ","H","i","t">>
sWarding == <<"w","a","r","d","i","n","g">>
sIo == <<"I","o">>
sOracle == <<"O","r","a","c","l","e">>
sZeus == <<"Z","e","u","s">>
sLion == <<"L","i","o","n">>
sTiny == <<"T","i","n","y">>
sMapAwareness == <<"m","a","p"," ","a","w","a","r","e","n","e","s","s">>

----------------------------------------------------------------------------
(* Partial records: Partial<UserProfile> and ExtractedPreferences are       *)
(* functions whose domain is the set of keys that are present.              *)

EmptyRecord == [k \in {} |-> <<>>]
Put(m, k, v) == [x \in (DOMAIN m) \cup {k} |-> IF x = k THEN v ELSE m[x]]
Has(m, k) == k \in DOMAIN m

----------------------------------------------------------------------------
(* JSON values, as JSON.parse returns them: a type tag and a payload.       *)

JString(s) == [t |-> "string", v |-> s]
JNumber == [t |-> "number", v |-> <<>>]
JNull == [t |-> "null", v |-> <<>>]
JUndefined == [t |-> "undefined", v |-> <<>>]
JArray(items) == [t |-> "array", v |-> items]
JObject(fields) == [t |-> "object", v |-> fields]

\* parsed.k for a parsed value that is not null: undefined unless parsed is
\* an object holding k
prop(parsed, k) ==
  IF parsed.t = "object" /\ k \in DOMAIN parsed.v THEN parsed.v[k] ELSE JUndefined

\* Array.isArray(x) && x.length > 0
isNonEmptyArray(x) == x.t = "array" /\ Len(x.v) > 0

\* items.filter((h) => typeof h === 'string')
RECURSIVE filterStrings(_)
filterStrings(items) ==
  IF items = <<>> THEN <<>>
  ELSE IF Head(items).t = "string"
       THEN <<Head(items).v>> \o filterStrings(Tail(items))
       ELSE filterStrings(Tail(items))

----------------------------------------------------------------------------
(* Preference extractor: services/profile.ts *)

validRoles == <<sCarry, sMid, sOfflane, sSoftSupport, sHardSupport, sSupport>>

isValidRole(r) == toLowerCase(r) \in Range(validRoles)

sanitizeHeroes(res, parsed) ==
  LET h == prop(parsed, "heroes") IN
  IF isNonEmptyArray(h) THEN Put(res, "heroes", filterStrings(h.v)) ELSE res

\* variant: roles kept without the vocabulary test
sanitizeRoles_noFilter(res, parsed) ==
  LET r == prop(parsed, "roles") IN
  IF isNonEmptyArray(r) THEN Put(res, "roles", filterStrings(r.v)) ELSE res

sanitizeRoles(res, parsed) ==
  LET r == prop(parsed, "roles") IN
  IF isNonEmptyArray(r)
  THEN Put(res, "roles", SelectSeq(filterStrings(r.v), isValidRole))
  ELSE res

\* variant: skillLevel stored as the model wrote it
sanitizeSkillLevel_noTrim(res, parsed) ==
  LET s == prop(parsed, "skillLevel") IN
  IF s.t = "string" /\ trim(s.v) # <<>>
  THEN Put(res, "skillLevel", s.v) ELSE res

sanitizeSkillLevel(res, parsed) ==
  LET s == prop(parsed, "skillLevel") IN
  IF s.t = "string" /\ trim(s.v) # <<>>
  THEN Put(res, "skillLevel", trim(s.v)) ELSE res

sanitizePlaystyle(res, parsed) ==
  LET s == prop(parsed, "playstyle") IN
  IF s.t = "string" /\ trim(s.v) # <<>>
  THEN Put(res, "playstyle", trim(s.v)) ELSE res

sanitizeLearningGoals(res, parsed) ==
  LET g == prop(parsed, "learningGoals") IN
  IF isNonEmptyArray(g) THEN Put(res, "learningGoals", filterStrings(g.v)) ELSE res

\* variant: a throw is handed on instead of being caught
extractPreferences_rethrow(rep) ==
  IF rep.kind = "throw" \/ rep.value.t \in {"null", "undefined"}
  THEN Put(EmptyRecord, "rejected", <<>>)
  ELSE EmptyRecord

\* rep.kind = "throw": llm.chat rejected or JSON.parse threw; the catch
\* block returns {}.  A parsed null makes parsed.heroes throw, caught too.
extractPreferences(rep) ==
  IF rep.kind = "throw" \/ rep.value.t \in {"null", "undefined"}
  THEN EmptyRecord
  ELSE sanitizeLearningGoals(
         sanitizePlaystyle(
           sanitizeSkillLevel(
             sanitizeRoles(
               sanitizeHeroes(EmptyRecord, rep.value), rep.value),
             rep.value),
           rep.value),
         rep.value)

\* variant: a field that is present counts, empty or not
hasPreferences_present(prefs) ==
  \E f \in {"heroes", "roles", "learningGoals", "skillLevel", "playstyle"} :
     Has(prefs, f)

hasPreferences(prefs) ==
  \/ (Has(prefs, "heroes") /\ Len(prefs["heroes"]) > 0)
  \/ (Has(prefs, "roles") /\ Len(prefs["roles"]) > 0)
  \/ (Has(prefs, "learningGoals") /\ Len(prefs["learningGoals"]) > 0)
  \/ (Has(prefs, "skillLevel") /\ truthy(prefs["skillLevel"]))
  \/ (Has(prefs, "playstyle") /\ truthy(prefs["playstyle"]))

----------------------------------------------------------------------------
(* Profile evolution engine: services/memory.ts.  Each step takes the      *)
(* {updated, changes} pair built so far and returns it extended.           *)

Change(f, old, new, act) ==
  [field |-> f, oldValue |-> old, newValue |-> new, action |-> act]

Record(acc, f, old, new, act) ==
  [updated |-> Put(acc.updated, f, new),
   changes |-> Append(acc.changes, Change(f, old, new, act))]

\* variant: the merged list leaves out the current heroes
evolveHeroes_dropOld(acc, cur, ext) ==
  IF Has(ext, "heroes") /\ Len(ext["heroes"]) > 0
  THEN LET newHeroes == SelectSeq(ext["heroes"],
                          LAMBDA h : h \notin Range(cur.preferredHeroes))
       IN IF Len(newHeroes) > 0
          THEN Record(acc, "preferredHeroes", cur.preferredHeroes, newHeroes, "add")
          ELSE acc
  ELSE acc

evolveHeroes(acc, cur, ext) ==
  IF Has(ext, "heroes") /\ Len(ext["heroes"]) > 0
  THEN LET currentHeroes == Range(cur.preferredHeroes)
           newHeroes == SelectSeq(ext["heroes"], LAMBDA h : h \notin currentHeroes)
       IN IF Len(newHeroes) > 0
          THEN Record(acc, "preferredHeroes", cur.preferredHeroes,
                      cur.preferredHeroes \o newHeroes, "add")
          ELSE acc
  ELSE acc

\* variant: the roles are updated without a changes entry
evolveRoles_noChange(acc, cur, ext) ==
  IF Has(ext, "roles") /\ Len(ext["roles"]) > 0
  THEN LET currentRoles == {toLowerCase(r) : r \in Range(cur.preferredRoles)}
           newRoles == SelectSeq(ext["roles"],
                         LAMBDA r : toLowerCase(r) \notin currentRoles)
       IN IF Len(newRoles) > 0
          THEN [acc EXCEPT !.updated = Put(acc.updated, "preferredRoles",
                                           cur.preferredRoles \o newRoles)]
          ELSE acc
  ELSE acc

evolveRoles(acc, cur, ext) ==
  IF Has(ext, "roles") /\ Len(ext["roles"]) > 0
  THEN LET currentRoles == {toLowerCase(r) : r \in Range(cur.preferredRoles)}
           newRoles == SelectSeq(ext["roles"],
                         LAMBDA r : toLowerCase(r) \notin currentRoles)
       IN IF Len(newRoles) > 0
          THEN Record(acc, "preferredRoles", cur.preferredRoles,
                      cur.preferredRoles \o newRoles, "add")
          ELSE acc
  ELSE acc

\* variant: skillLevel replaced even when it is the current one
evolveSkillLevel_always(acc, cur, ext) ==
  IF Has(ext, "skillLevel") /\ truthy(ext["skillLevel"])
  THEN Record(acc, "skillLevel", cur.skillLevel, ext["skillLevel"], "replace")
  ELSE acc

evolveSkillLevel(acc, cur, ext) ==
  IF Has(ext, "skillLevel") /\ truthy(ext["skillLevel"])
  THEN IF cur.skillLevel # ext["skillLevel"]
       THEN Record(acc, "skillLevel", cur.skillLevel, ext["skillLevel"], "replace")
       ELSE acc
  ELSE acc

\* variant: a differing playstyle overwrites the current one
evolvePlaystyle_overwrite(acc, cur, ext) ==
  IF Has(ext, "playstyle") /\ truthy(ext["playstyle"])
  THEN IF ~ truthy(cur.playstyle)
       THEN Record(acc, "playstyle", cur.playstyle, ext["playstyle"], "replace")
       ELSE IF ~ includes(toLowerCase(cur.playstyle), toLowerCase(ext["playstyle"]))
            THEN Record(acc, "playstyle", cur.playstyle, ext["playstyle"], "merge")
            ELSE acc
  ELSE acc

evolvePlaystyle(acc, cur, ext) ==
  IF Has(ext, "playstyle") /\ truthy(ext["playstyle"])
  THEN IF ~ truthy(cur.playstyle)
       THEN Record(acc, "playstyle", cur.playstyle, ext["playstyle"], "replace")
       ELSE IF ~ includes(toLowerCase(cur.playstyle), toLowerCase(ext["playstyle"]))
            THEN Record(acc, "playstyle", cur.playstyle,
                        cur.playstyle \o <<",", " ">> \o ext["playstyle"], "merge")
            ELSE acc
  ELSE acc

evolveLearningGoals(acc, cur, ext) ==
  IF Has(ext, "learningGoals") /\ Len(ext["learningGoals"]) > 0
  THEN LET currentGoals == {toLowerCase(g) : g \in Range(cur.learningGoals)}
           newGoals == SelectSeq(ext["learningGoals"],
                         LAMBDA g : toLowerCase(g) \notin currentGoals)
       IN IF Len(newGoals) > 0
          THEN Record(acc, "learningGoals", cur.learningGoals,
                      cur.learningGoals \o newGoals, "add")
          ELSE acc
  ELSE acc

evolveProfile(cur, ext) ==
  evolveLearningGoals(
    evolvePlaystyle(
      evolveSkillLevel(
        evolveRoles(
          evolveHeroes([updated |-> EmptyRecord, changes |-> <<>>], cur, ext),
          cur, ext),
        cur, ext),
      cur, ext),
    cur, ext)

----------------------------------------------------------------------------
(* System prompt: services/memory.ts.  A text is a sequence of items; the   *)
(* fixed phrases of the template are one item each, profile values are     *)
(* character sequences.                                                    *)

BaseSentence == <<"You are a concise Dota 2 assistant.">>
ClosingInstruction ==
  <<"Tailor advice to their level and preferences. Use provided sources. Cite with [n]. Keep answers tight and practical.">>

\* the first n elements of list, joined by sep
RECURSIVE joinFirst(_, _, _)
joinFirst(list, sep, n) ==
  IF n = 0 THEN <<>>
  ELSE IF n = 1 THEN list[1]
  ELSE joinFirst(list, sep, n - 1) \o sep \o list[n]

\* Array.prototype.join
join(list, sep) == joinFirst(list, sep, Len(list))

\* list.slice(0, n)
slice(list, n) == SubSeq(list, 1, IF Len(list) < n THEN Len(list) ELSE n)

CommaSpace == <<",", " ">>

skillSentence(profile) ==
  <<"You are helping a ">> \o profile.skillLevel \o <<" player.">>

\* variant: every hero is listed
heroSentence_all(profile) ==
  <<"They main: ">> \o join(profile.preferredHeroes, CommaSpace) \o <<".">>

heroSentence(profile) ==
  <<"They main: ">> \o join(slice(profile.preferredHeroes, 5), CommaSpace) \o <<".">>

roleSentence(profile) ==
  <<"They prefer playing ">> \o join(profile.preferredRoles, CommaSpace) \o <<".">>

playstyleSentence(profile) ==
  <<"Their playstyle is ">> \o profile.playstyle \o <<".">>

goalSentence(profile) ==
  <<"Current learning goals: ">>
    \o join(slice(profile.learningGoals, 3), CommaSpace) \o <<".">>

buildPersonalizedPrompt(profile) ==
  LET p1 == <<BaseSentence>>
      p2 == IF truthy(profile.skillLevel)
            THEN Append(p1, skillSentence(profile)) ELSE p1
      p3 == IF Len(profile.preferredHeroes) > 0
            THEN Append(p2, heroSentence(profile)) ELSE p2
      p4 == IF Len(profile.preferredRoles) > 0
            THEN Append(p3, roleSentence(profile)) ELSE p3
      p5 == IF truthy(profile.playstyle)
            THEN Append(p4, playstyleSentence(profile)) ELSE p4
      p6 == IF Len(profile.learningGoals) > 0
            THEN Append(p5, goalSentence(profile)) ELSE p5
      parts == Append(p6, ClosingInstruction)
  IN join(parts, <<" ">>)

\* variant: the learning goals are not looked at
hasProfileData_noGoals(profile) ==
  \/ Len(profile.preferredHeroes) > 0
  \/ Len(profile.preferredRoles) > 0
  \/ truthy(profile.skillLevel)
  \/ truthy(profile.playstyle)

hasProfileData(profile) ==
  \/ Len(profile.preferredHeroes) > 0
  \/ Len(profile.preferredRoles) > 0
  \/ truthy(profile.skillLevel)
  \/ truthy(profile.playstyle)
  \/ Len(profile.learningGoals) > 0

----------------------------------------------------------------------------
(* Profile store: routes/profile.ts *)

UpdatableFields == {"preferredHeroes", "preferredRoles", "skillLevel",
                    "mmrBracket", "playstyle", "learningGoals"}
ListFields == {"preferredHeroes", "preferredRoles", "learningGoals"}

\* the row INSERT OR IGNORE INTO user_profiles (user_id) VALUES (1) creates,
\* as rowToProfile reads it
DefaultProfile ==
  [userId |-> 1, preferredHeroes |-> <<>>, preferredRoles |-> <<>>,
   skillLevel |-> NULL, mmrBracket |-> NULL, playstyle |-> NULL,
   learningGoals |-> <<>>, createdAt |-> 0, updatedAt |-> 0]

\* UPDATE user_profiles SET <the fields present>, updated_at = now; nothing
\* at all when no field is present
\* variant: lists absent from the partial record are reset to []
updateProfile_resetAbsent(row, profile, now) ==
  IF (DOMAIN profile) \cap UpdatableFields = {} THEN row
  ELSE [f \in DOMAIN row |->
          IF f \in (DOMAIN profile) \cap UpdatableFields THEN profile[f]
          ELSE IF f = "updatedAt" THEN now
          ELSE IF f \in ListFields THEN <<>>
          ELSE row[f]]

\* variant: updated_at is set even when no field is present
updateProfile_touch(row, profile, now) ==
  [f \in DOMAIN row |->
     IF f \in (DOMAIN profile) \cap UpdatableFields THEN profile[f]
     ELSE IF f = "updatedAt" THEN now
     ELSE row[f]]

updateProfile(row, profile, now) ==
  IF (DOMAIN profile) \cap UpdatableFields = {} THEN row
  ELSE [f \in DOMAIN row |->
          IF f \in (DOMAIN profile) \cap UpdatableFields THEN profile[f]
          ELSE IF f = "updatedAt" THEN now
          ELSE row[f]]

----------------------------------------------------------------------------
(* Provider gateway: services/llm.ts.  Environment values and HTTP bodies   *)
(* are only tested and carried, so they are plain strings; a completion    *)
(* text is a character sequence.                                           *)

Providers == <<"anthropic", "openai", "openrouter">>

DEFAULT_MODELS ==
  [p \in Range(Providers) |->
     CASE p = "openai" -> "gpt-4o-mini"
       [] p = "anthropic" -> "claude-sonnet-4-20250514"
       [] p = "openrouter" -> "openai/gpt-4o-mini"]

DEFAULT_URLS ==
  [p \in Range(Providers) |->
     CASE p = "openai" -> "https://api.openai.com/v1"
       [] p = "anthropic" -> "https://api.anthropic.com/v1"
       [] p = "openrouter" -> "https://openrouter.ai/api/v1"]

KeyOf ==
  [p \in Range(Providers) |->
     CASE p = "openai" -> "OPENAI_API_KEY"
       [] p = "anthropic" -> "ANTHROPIC_API_KEY"
       [] p = "openrouter" -> "OPENROUTER_API_KEY"]

\* a variable that is set and not the empty string
present(e, k) == Has(e, k) /\ e[k] # ""

\* new LLMService({provider, apiKey, model: env.LLM_MODEL})
LLMService(e, p) ==
  [state |-> "ok", provider |-> p, apiKey |-> e[KeyOf[p]],
   model |-> IF Has(e, "LLM_MODEL") THEN e["LLM_MODEL"] ELSE DEFAULT_MODELS[p],
   baseUrl |-> DEFAULT_URLS[p]]

NoProviderConfigured ==
  [state |-> "error",
   message |-> "No LLM API key provided. Set ANTHROPIC_API_KEY, OPENAI_API_KEY, or OPENROUTER_API_KEY"]

\* variant: LLM_PROVIDER is ignored
createLLMService_ignorePreference(e) ==
  IF present(e, "ANTHROPIC_API_KEY") THEN LLMService(e, "anthropic")
  ELSE IF present(e, "OPENAI_API_KEY") THEN LLMService(e, "openai")
  ELSE IF present(e, "OPENROUTER_API_KEY") THEN LLMService(e, "openrouter")
  ELSE NoProviderConfigured

createLLMService(e) ==
  LET preferredProvider == IF Has(e, "LLM_PROVIDER") THEN e["LLM_PROVIDER"] ELSE ""
  IN IF preferredProvider = "anthropic" /\ present(e, "ANTHROPIC_API_KEY")
     THEN LLMService(e, "anthropic")
     ELSE IF preferredProvider = "openai" /\ present(e, "OPENAI_API_KEY")
     THEN LLMService(e, "openai")
     ELSE IF preferredProvider = "openrouter" /\ present(e, "OPENROUTER_API_KEY")
     THEN LLMService(e, "openrouter")
     ELSE IF present(e, "ANTHROPIC_API_KEY") THEN LLMService(e, "anthropic")
     ELSE IF present(e, "OPENAI_API_KEY") THEN LLMService(e, "openai")
     ELSE IF present(e, "OPENROUTER_API_KEY") THEN LLMService(e, "openrouter")
     ELSE NoProviderConfigured

\* Response.ok
ok(resp) == resp.status >= 200 /\ resp.status <= 299

Thrown(parts) == [kind |-> "error", message |-> parts]
Completion(text) == [kind |-> "ok", content |-> text]

\* data.choices?.[0]?.message?.content ?? ''
openAIContent(data) ==
  IF Has(data, "choices") /\ Len(data["choices"]) > 0
     /\ Has(data["choices"][1], "message")
     /\ Has(data["choices"][1]["message"], "content")
  THEN data["choices"][1]["message"]["content"]
  ELSE <<>>

\* variant: the body is read whatever the status
chatOpenAI_noStatusCheck(resp) ==
  LET content == openAIContent(resp.data)
  IN IF content = <<>> THEN Thrown(<<"Empty response from LLM">>)
     ELSE Completion(content)

chatOpenAI(resp) ==
  IF ~ ok(resp)
  THEN Thrown(<<"LLM request failed (", ToString(resp.status), "): ", resp.text>>)
  ELSE LET content == openAIContent(resp.data)
       IN IF content = <<>> THEN Thrown(<<"Empty response from LLM">>)
          ELSE Completion(content)

\* data.content?.find((c) => c.type === 'text')?.text ?? ''
anthropicText(data) ==
  IF Has(data, "content") /\ \E i \in DOMAIN data["content"] : data["content"][i]["type"] = "text"
  THEN LET blocks == data["content"]
           first == CHOOSE i \in DOMAIN blocks :
                      /\ blocks[i]["type"] = "text"
                      /\ \A j \in DOMAIN blocks : blocks[j]["type"] = "text" => i <= j
       IN IF Has(blocks[first], "text") THEN blocks[first]["text"] ELSE <<>>
  ELSE <<>>

chatAnthropic(resp) ==
  IF ~ ok(resp)
  THEN Thrown(<<"Anthropic request failed (", ToString(resp.status), "): ", resp.text>>)
  ELSE LET textContent == anthropicText(resp.data)
       IN IF textContent = <<>> THEN Thrown(<<"Empty response from Anthropic">>)
          ELSE Completion(textContent)

\* the value of a variable never assigned
Undefined == "<undefined>"

Msg(role, content) == [role |-> role, content |-> content]

\* the loop of chatAnthropic: the messages that are not system messages
\* variant: no message is taken out
conversationMessages_all(msgs) == msgs

conversationMessages(msgs) == SelectSeq(msgs, LAMBDA m : m.role # "system")

\* the loop of chatAnthropic: the content of the last system message
systemPrompt(msgs) ==
  LET sys == SelectSeq(msgs, LAMBDA m : m.role = "system")
  IN IF sys = <<>> THEN Undefined ELSE sys[Len(sys)].content

\* the body chatAnthropic posts; system only when systemPrompt is truthy
anthropicBody(svc, msgs, options) ==
  LET body == [model |-> svc.model, messages |-> conversationMessages(msgs),
               max_tokens |-> options.maxTokens,
               temperature |-> options.temperature]
      sp == systemPrompt(msgs)
  IN IF sp # Undefined /\ sp # "" THEN Put(body, "system", sp) ELSE body

\* the body chatOpenAI posts
openAIBody(svc, msgs, options) ==
  [model |-> svc.model, messages |-> msgs,
   temperature |-> options.temperature, max_tokens |-> options.maxTokens]

\* LLMService.chat, up to the fetch
requestBody(svc, msgs, options) ==
  IF svc.provider = "anthropic" THEN anthropicBody(svc, msgs, options)
  ELSE openAIBody(svc, msgs, options)

\* LLMService.chat, from the provider's response on
chat(svc, resp) ==
  IF svc.provider = "anthropic" THEN chatAnthropic(resp) ELSE chatOpenAI(resp)

----------------------------------------------------------------------------
(* Inputs: what the extraction call can produce, and the profiles the      *)
(* store can hold when a pipeline starts.                                  *)

Obj1(k, v) == JObject(Put(EmptyRecord, k, v))
Strs(ss) == JArray([i \in DOMAIN ss |-> JString(ss[i])])
Json(value) == [kind |-> "json", value |-> value]

\* JSON documents the extraction model can write, with what JSON.parse
\* returns for each
ReplyDocuments ==
  << [text |-> "null", value |-> JNull],
     [text |-> "5", value |-> JNumber],
     [text |-> "{}", value |-> JObject(EmptyRecord)],
     [text |-> "{\"heroes\":[\"Axe\"]}", value |-> Obj1("heroes", Strs(<<sAxe>>))],
     [text |-> "{\"heroes\":[\"Lina\",\"Lina\"]}",
      value |-> Obj1("heroes", Strs(<<sLina, sLina>>))],
     [text |-> "{\"heroes\":[\"axe\",5]}",
      value |-> Obj1("heroes", JArray(<<JString(sAxeLower), JNumber>>))],
     [text |-> "{\"roles\":[\"jungler\"]}", value |-> Obj1("roles", Strs(<<sJungler>>))],
     [text |-> "{\"roles\":[\"Carry\",\"carry\"]}",
      value |-> Obj1("roles", Strs(<<sCarryCap, sCarry>>))],
     [text |-> "{\"roles\":[\"mid\",\"jungler\"],\"skillLevel\":\"Herald\"}",
      value |-> JObject(Put(Put(EmptyRecord, "roles", Strs(<<sMid, sJungler>>)),
                            "skillLevel", JString(sHerald)))],
     [text |-> "{\"skillLevel\":\" Archon \",\"playstyle\":\"Aggressive\"}",
      value |-> JObject(Put(Put(EmptyRecord,
                  "skillLevel", JString(<<" ">> \o sArchon \o <<" ">>)),
                  "playstyle", JString(sAggressiveCap)))],
     [text |-> "{\"playstyle\":\"farming\"}",
      value |-> Obj1("playstyle", JString(sFarming))],
     [text |-> "{\"playstyle\":\"  \",\"skillLevel\":5,\"heroes\":\"Axe\"}",
      value |-> JObject(Put(Put(Put(EmptyRecord, "playstyle", JString(<<" ", " ">>)),
                                "skillLevel", JNumber),
                            "heroes", JString(sAxe)))],
     [text |-> "{\"learningGoals\":[\"last hit\",\"Last Hit\"]}",
      value |-> Obj1("learningGoals", Strs(<<sLastHit, sLastHitCap>>))],
     [text |-> "{\"heroes\":[\"Axe\",\"Lina\"],\"roles\":[\"support\"],\"skillLevel\":\"Herald\",\"playstyle\":\"aggressive\",\"learningGoals\":[\"warding\"]}",
      value |-> JObject(Put(Put(Put(Put(Put(EmptyRecord,
                  "heroes", Strs(<<sAxe, sLina>>)),
                  "roles", Strs(<<sSupport>>)),
                  "skillLevel", JString(sHerald)),
                  "playstyle", JString(sAggressive)),
                  "learningGoals", Strs(<<sWarding>>)))] >>

\* what the extraction call hands to the validation: a throw (llm.chat or
\* JSON.parse failed) or the parsed value of one of the documents
ModelReplies ==
  {[kind |-> "throw", value |-> JNull]} \cup
  {Json(ReplyDocuments[d].value) : d \in DOMAIN ReplyDocuments}

\* profiles without duplicates in their lists
StartProfiles ==
  { [DefaultProfile EXCEPT !.preferredHeroes = h, !.preferredRoles = r,
                           !.skillLevel = k, !.playstyle = p,
                           !.learningGoals = g] :
      h \in {<<>>, <<sAxe>>, <<sLina, sAxe>>},
      r \in {<<>>, <<sCarryCap>>},
      k \in {NULL, sHerald},
      p \in {NULL, <<>>, sAggressive},
      g \in {<<>>, <<sLastHitCap>>} }

NoResult == [updated |-> EmptyRecord, changes |-> <<>>]

----------------------------------------------------------------------------
(* The extraction call, services/profile.ts, from llm.chat to JSON.parse.  *)
(* A completion text is a sequence of items: single characters, and JSON   *)
(* documents, each document being one item.                                *)

JTrue == [t |-> "boolean", v |-> <<>>]

OtherDocuments ==
  << [text |-> "true", value |-> JTrue],
     [text |-> "\"Axe\"", value |-> JString(sAxe)],
     [text |-> "[]", value |-> JArray(<<>>)],
     [text |-> "[\"Axe\"]", value |-> Strs(<<sAxe>>)],
     [text |-> "{\"heroes\":[\"Axe\"],\"mmrBracket\":\"Legend\",\"userId\":2}",
      value |-> JObject(Put(Put(Put(EmptyRecord, "heroes", Strs(<<sAxe>>)),
                                "mmrBracket", JString(sArchon)),
                            "userId", JNumber))],
     [text |-> "{\"heroes\":[],\"roles\":[],\"learningGoals\":[]}",
      value |-> JObject(Put(Put(Put(EmptyRecord, "heroes", JArray(<<>>)),
                                "roles", JArray(<<>>)),
                            "learningGoals", JArray(<<>>)))],
     [text |-> "{\"skillLevel\":\"\",\"playstyle\":null}",
      value |-> JObject(Put(Put(EmptyRecord, "skillLevel", JString(<<>>)),
                            "playstyle", JNull))],
     [text |-> "{\"roles\":[7,\"Mid\"],\"learningGoals\":\"warding\"}",
      value |-> JObject(Put(Put(EmptyRecord,
                  "roles", JArray(<<JNumber, JString(<<"M", "i", "d">>)>>)),
                  "learningGoals", JString(sWarding)))],
     [text |-> "{\"heroes\":[[\"Axe\"],\"\"],\"learningGoals\":[null,\"warding\"]}",
      value |-> JObject(Put(Put(EmptyRecord,
                  "heroes", JArray(<<Strs(<<sAxe>>), JString(<<>>)>>)),
                  "learningGoals", JArray(<<JNull, JString(sWarding)>>)))] >>

Documents == ReplyDocuments \o OtherDocuments

SyntaxError == [kind |-> "throw", value |-> JNull]

\* JSON.parse: the value of the one document the text consists of, white
\* space around it allowed; a SyntaxError for any other text
JSONparse(jsonStr) ==
  LET body == trim(jsonStr)
  IN IF Len(body) = 1 /\ \E d \in DOMAIN Documents : Documents[d].text = body[1]
     THEN Json(Documents[CHOOSE d \in DOMAIN Documents :
                           Documents[d].text = body[1]].value)
     ELSE SyntaxError

\* the grave accent character, written out
Grave == "grave"
Fence == <<Grave, Grave, Grave>>
TagJson == <<"j", "s", "o", "n">>

occursAt(text, needle, i) ==
  /\ i >= 1
  /\ i + Len(needle) - 1 <= Len(text)
  /\ SubSeq(text, i, i + Len(needle) - 1) = needle

\* \s* from position i on: the position of the first item that is not
\* white space
RECURSIVE skipSpace(_, _)
skipSpace(text, i) ==
  IF i <= Len(text) /\ text[i] \in WhiteSpace THEN skipSpace(text, i + 1) ELSE i

Least(S) == CHOOSE x \in S : \A y \in S : x <= y

NoMatch == [matched |-> FALSE, group |-> <<>>]

\* variant: the block runs up to the last fence of the text
fenceMatch_greedy(content) ==
  LET opens == {i \in DOMAIN content : occursAt(content, Fence, i)}
  IN IF opens = {} THEN NoMatch
     ELSE LET open == Least(opens)
              afterTag == IF occursAt(content, TagJson, open + 3)
                          THEN open + 7 ELSE open + 3
              start == skipSpace(content, afterTag)
              closes == {k \in start..Len(content) : occursAt(content, Fence, k)}
          IN IF closes = {} THEN NoMatch
             ELSE [matched |-> TRUE,
                   group |-> SubSeq(content, start,
                                    (CHOOSE k \in closes : \A j \in closes : j <= k) - 1)]

\* content.match(/FENCE(?:json)?\s*([\s\S]*?)FENCE/), FENCE being three grave
\* accents: from the first fence, past an optional json tag and white space,
\* up to the next fence
fenceMatch(content) ==
  LET opens == {i \in DOMAIN content : occursAt(content, Fence, i)}
  IN IF opens = {} THEN NoMatch
     ELSE LET open == Least(opens)
              afterTag == IF occursAt(content, TagJson, open + 3)
                          THEN open + 7 ELSE open + 3
              start == skipSpace(content, afterTag)
              closes == {k \in start..Len(content) : occursAt(content, Fence, k)}
          IN IF closes = {} THEN NoMatch
             ELSE [matched |-> TRUE,
                   group |-> SubSeq(content, start, Least(closes) - 1)]

\* extractPreferences from the outcome of llm.chat to the outcome of
\* JSON.parse
parseReply(outcome) ==
  IF outcome.kind = "error" THEN SyntaxError
  ELSE LET content == trim(outcome.content)
           jsonMatch == fenceMatch(content)
           jsonStr == IF jsonMatch.matched THEN trim(jsonMatch.group) ELSE content
       IN JSONparse(jsonStr)

Prose == <<"S", "u", "r", "e", ":">>

Layouts == <<"bare", "padded", "fenced json", "fenced", "prose around fence",
             "prose then document", "unclosed fence", "two blocks", "upper tag">>

Layout(l, d) ==
  CASE l = "bare" -> <<d>>
    [] l = "padded" -> <<" ", d, "\n">>
    [] l = "fenced json" -> Fence \o TagJson \o <<"\n", d, "\n">> \o Fence
    [] l = "fenced" -> Fence \o <<"\n", d, "\n">> \o Fence
    [] l = "prose around fence" ->
         Prose \o <<"\n">> \o Fence \o TagJson \o <<" ", d>> \o Fence
               \o <<"\n">> \o Prose
    [] l = "prose then document" -> Prose \o <<" ", d>>
    [] l = "unclosed fence" -> Fence \o TagJson \o <<"\n", d>>
    [] l = "two blocks" -> Fence \o <<d>> \o Fence \o <<"\n">>
                                 \o Fence \o <<"{\"heroes\":[\"Axe\"]}">> \o Fence
    [] l = "upper tag" -> Fence \o <<"J", "S", "O", "N", "\n", d, "\n">> \o Fence

\* what llm.chat can settle with: the gateway's errors, and completions of
\* every layout around every document, blank ones and plain prose
GatewayOutcomes ==
  { Thrown(<<"LLM request failed (", "500", "): ", "">>),
    Thrown(<<"Empty response from LLM">>),
    Thrown(<<"fetch failed">>),
    Completion(<<" ">>),
    Completion(<<" ", "\n">>),
    Completion(Prose),
    Completion(Fence \o Fence) }
  \cup { Completion(Layout(Layouts[l], Documents[d].text)) :
           l \in DOMAIN Layouts, d \in DOMAIN Documents }

----------------------------------------------------------------------------
(* SpecEvolve: the pipeline run sequentially, one round after another:      *)
(* extractPreferences, evolveProfile, updateProfile, and evolveProfile      *)
(* once more with the same record against the updated profile.             *)

ChatIdle ==
  /\ stored = DefaultProfile
  /\ reqPc = [r \in 1..MaxReqs |-> "idle"]
  /\ snapshot = [r \in 1..MaxReqs |-> DefaultProfile]
  /\ reqExtracted = [r \in 1..MaxReqs |-> EmptyRecord]
  /\ reqEvolution = [r \in 1..MaxReqs |-> NoResult]
  /\ evolutions = [r \in 1..MaxReqs |-> 0]
  /\ extractCalls = [r \in 1..MaxReqs |-> 0]
  /\ writes = [r \in 1..MaxReqs |-> 0]
  /\ clock = 0

HandlerIdle ==
  /\ serpApiKey = "serp-key"
  /\ reqBody = [r \in 1..MaxReqs |-> EmptyRecord]
  /\ fgPc = [r \in 1..MaxReqs |-> "idle"]
  /\ responses = [r \in 1..MaxReqs |-> <<>>]
  /\ serpResults = [r \in 1..MaxReqs |-> <<>>]
  /\ chatMessages = [r \in 1..MaxReqs |-> <<>>]
  /\ searchCalls = [r \in 1..MaxReqs |-> 0]
  /\ chatCalls = [r \in 1..MaxReqs |-> 0]
  /\ notes = [r \in 1..MaxReqs |-> 0]
  /\ settled = [r \in 1..MaxReqs |-> <<>>]

ClientIdle ==
  /\ uiMessages = <<>>
  /\ uiPc = "idle"
  /\ uiRequest = EmptyRecord
  /\ gatewayMessages = <<>>
  /\ wire = <<>>
  /\ sends = 0

LLMIdle ==
  /\ env = EmptyRecord
  /\ service = [state |-> "none"]
  /\ callPc = "idle"
  /\ messages = <<>>
  /\ request = EmptyRecord
  /\ httpResp = [status |-> 0]
  /\ chatOutcome = [kind |-> "none"]
  /\ fetches = 0

PromptIdle ==
  /\ promptProfile = DefaultProfile
  /\ prompt = <<>>
  /\ twinPrompt = <<>>
  /\ hasData = FALSE
  /\ promptPc = "render"

ExtractIdle ==
  /\ completion = Thrown(<<"fetch failed">>)
  /\ parseResult = SyntaxError
  /\ returned = EmptyRecord
  /\ extractPc = "chat"

EvolveIdle ==
  /\ current = DefaultProfile
  /\ reply = [kind |-> "throw", value |-> JNull]
  /\ extracted = EmptyRecord
  /\ result = NoResult
  /\ again = NoResult
  /\ pc = "extract"
  /\ step = 0

EvolveInit ==
  /\ current \in StartProfiles
  /\ reply = [kind |-> "throw", value |-> JNull]
  /\ extracted = EmptyRecord
  /\ result = NoResult
  /\ again = NoResult
  /\ pc = "extract"
  /\ step = 0
  /\ ChatIdle
  /\ HandlerIdle
  /\ LLMIdle
  /\ ExtractIdle
  /\ PromptIdle
  /\ ClientIdle

Extract ==
  /\ pc = "extract"
  /\ step < MaxSteps
  /\ \E rep \in ModelReplies :
       /\ reply' = rep
       /\ extracted' = extractPreferences(rep)
  /\ pc' = "evolve"
  /\ UNCHANGED <<current, result, again, step>>
  /\ UNCHANGED exceptEvolve

Evolve ==
  /\ pc = "evolve"
  /\ result' = evolveProfile(current, extracted)
  /\ pc' = "persist"
  /\ UNCHANGED <<current, reply, extracted, again, step>>
  /\ UNCHANGED exceptEvolve

Persist ==
  /\ pc = "persist"
  /\ current' = updateProfile(current, result.updated, step + 1)
  /\ pc' = "again"
  /\ UNCHANGED <<reply, extracted, result, again, step>>
  /\ UNCHANGED exceptEvolve

EvolveAgain ==
  /\ pc = "again"
  /\ again' = evolveProfile(current, extracted)
  /\ pc' = "extract"
  /\ step' = step + 1
  /\ UNCHANGED <<current, reply, extracted, result>>
  /\ UNCHANGED exceptEvolve

EvolveNext == Extract \/ Evolve \/ Persist \/ EvolveAgain

SpecEvolve == EvolveInit /\ [][EvolveNext]_vars

----------------------------------------------------------------------------
(* Spec: chat requests and their background tasks, routes/chat.ts.  The     *)
(* handler loads the profile and starts extractAndUpdateProfile, which     *)
(* runs up to the extraction call's await; everything after that await     *)
(* (validation, hasPreferences, evolveProfile, updateProfile) runs without *)
(* a further await, better-sqlite3 being synchronous.                      *)

Reqs == 1..MaxReqs

\* the replies drawn for the background tasks
ChatReplies ==
  { [kind |-> "throw", value |-> JNull],
    Json(Obj1("roles", Strs(<<sJungler>>))),
    Json(Obj1("heroes", Strs(<<sAxe>>))),
    Json(JObject(Put(Put(EmptyRecord, "heroes", Strs(<<sLina>>)),
                     "playstyle", JString(sAggressiveCap)))),
    Json(JObject(Put(Put(EmptyRecord, "roles", Strs(<<sMid, sJungler>>)),
                     "playstyle", JString(sFarming)))),
    Json(Obj1("learningGoals", Strs(<<sWarding>>))),
    Json(JObject(Put(Put(EmptyRecord, "skillLevel", JString(sHerald)),
                     "playstyle", JString(sAggressive)))) }

\* the row as created by the migration, and a row filled in through
\* PUT /api/profile
FilledProfile ==
  [DefaultProfile EXCEPT !.preferredHeroes = <<sAxe>>,
                         !.preferredRoles = <<sCarryCap>>,
                         !.playstyle = sAggressive,
                         !.learningGoals = <<sLastHitCap>>]

\* a row whose playstyle was set to the empty string through PUT /api/profile
ClearedProfile ==
  [DefaultProfile EXCEPT !.skillLevel = sHerald, !.playstyle = <<>>]

InitialRows == {DefaultProfile, FilledProfile, ClearedProfile}

\* the table without a row for the user, and the null getProfile returns then
NoRow == EmptyRecord
NoProfile == EmptyRecord

\* variant: a default profile is handed out when there is no row
getProfile_default(row) == IF DOMAIN row = {} THEN DefaultProfile ELSE row

getProfile(row) == IF DOMAIN row = {} THEN NoProfile ELSE row

Init ==
  /\ stored \in InitialRows
  /\ reqPc = [r \in Reqs |-> "idle"]
  /\ snapshot = [r \in Reqs |-> DefaultProfile]
  /\ reqExtracted = [r \in Reqs |-> EmptyRecord]
  /\ reqEvolution = [r \in Reqs |-> NoResult]
  /\ evolutions = [r \in Reqs |-> 0]
  /\ extractCalls = [r \in Reqs |-> 0]
  /\ writes = [r \in Reqs |-> 0]
  /\ clock = 0
  /\ HandlerIdle
  /\ EvolveIdle
  /\ LLMIdle
  /\ ExtractIdle
  /\ PromptIdle
  /\ ClientIdle

\* POST /api/chat up to the first await of the background task: getProfile,
\* then extractAndUpdateProfile as far as the llm.chat call.  Requests are
\* numbered in the order they arrive.
\* variant: the profile is loaded but the background task is not started
startBackground_skip(r) ==
  /\ snapshot' = [snapshot EXCEPT ![r] = getProfile(stored)]
  /\ reqPc' = [reqPc EXCEPT ![r] = "done"]
  /\ UNCHANGED <<stored, reqExtracted, reqEvolution, evolutions, extractCalls,
                 writes, clock>>

startBackground(r) ==
  /\ snapshot' = [snapshot EXCEPT ![r] = getProfile(stored)]
  /\ reqPc' = [reqPc EXCEPT ![r] =
                 IF getProfile(stored) = NoProfile THEN "done" ELSE "extracting"]
  /\ extractCalls' = [extractCalls EXCEPT ![r] =
                        IF getProfile(stored) = NoProfile THEN @ ELSE @ + 1]
  /\ UNCHANGED <<stored, reqExtracted, reqEvolution, evolutions, writes, clock>>

StartRequest(r) ==
  /\ reqPc[r] = "idle"
  /\ \A q \in Reqs : q < r => reqPc[q] # "idle"
  /\ startBackground(r)
  /\ UNCHANGED exceptChat

\* variant: the task evolves the row as stored when it writes, not the
\* profile its request loaded
extractAndUpdateProfile_fresh(r, rep) ==
  LET ext == extractPreferences(rep)
      evo == evolveProfile(stored, ext)
  IN /\ reqExtracted' = [reqExtracted EXCEPT ![r] = ext]
     /\ IF ~ hasPreferences(ext)
        THEN UNCHANGED <<stored, reqEvolution, evolutions, writes>>
        ELSE /\ reqEvolution' = [reqEvolution EXCEPT ![r] = evo]
             /\ evolutions' = [evolutions EXCEPT ![r] = @ + 1]
             /\ IF Len(evo.changes) > 0
                THEN /\ stored' = updateProfile(stored, evo.updated, clock)
                     /\ writes' = [writes EXCEPT ![r] = @ + 1]
                ELSE UNCHANGED <<stored, writes>>

\* the rest of extractAndUpdateProfile, from the extraction call's outcome
extractAndUpdateProfile(r, rep) ==
  LET ext == extractPreferences(rep)
      evo == evolveProfile(snapshot[r], ext)
  IN /\ reqExtracted' = [reqExtracted EXCEPT ![r] = ext]
     /\ IF ~ hasPreferences(ext)
        THEN UNCHANGED <<stored, reqEvolution, evolutions, writes>>
        ELSE /\ reqEvolution' = [reqEvolution EXCEPT ![r] = evo]
             /\ evolutions' = [evolutions EXCEPT ![r] = @ + 1]
             /\ IF Len(evo.changes) > 0
                THEN /\ stored' = updateProfile(stored, evo.updated, clock)
                     /\ writes' = [writes EXCEPT ![r] = @ + 1]
                ELSE UNCHANGED <<stored, writes>>

BackgroundFinish(r) ==
  /\ reqPc[r] = "extracting"
  /\ \E rep \in ChatReplies : extractAndUpdateProfile(r, rep)
  /\ reqPc' = [reqPc EXCEPT ![r] = "done"]
  /\ UNCHANGED <<snapshot, extractCalls, clock>>
  /\ UNCHANGED exceptChat

\* datetime('now') advances
Tick ==
  /\ clock < MaxClock
  /\ clock' = clock + 1
  /\ UNCHANGED <<stored, reqPc, snapshot, reqExtracted, reqEvolution, evolutions, extractCalls,
                 writes>>
  /\ UNCHANGED exceptChat

Next ==
  \/ \E r \in Reqs : StartRequest(r)
  \/ \E r \in Reqs : BackgroundFinish(r)
  \/ Tick

Spec == Init /\ [][Next]_vars

----------------------------------------------------------------------------
(* Properties of the evolution engine, checked under SpecEvolve *)

NoDuplicates(list) ==
  \A i, j \in DOMAIN list : list[i] = list[j] => i = j
NoDuplicatesIgnoringCase(list) ==
  \A i, j \in DOMAIN list : toLowerCase(list[i]) = toLowerCase(list[j]) => i = j

\* C1: evolveProfile never removes an element of preferredHeroes,
\* preferredRoles or learningGoals: a list that appears in 'updated' has the
\* old list as a prefix, and a list that does not appear is left as it was
\* when 'updated' is applied.
C1_ListsOnlyGrow ==
  [][pc = "persist" =>
       \A f \in ListFields :
          IF Has(result.updated, f)
          THEN /\ IsPrefix(current[f], result.updated[f])
               /\ current'[f] = result.updated[f]
          ELSE current'[f] = current[f]]_vars

C1_Witness ==
  /\ pc = "again"
  /\ Has(result.updated, "preferredHeroes")
  /\ Len(current.preferredHeroes) >= 3
  /\ ~ Has(result.updated, "preferredRoles")
  /\ current.preferredRoles # <<>>

\* C3: evolution is idempotent: evolving the updated profile with the same
\* extracted record returns no changes and an empty 'updated'.
C3_Idempotent ==
  (pc = "extract" /\ step > 0) =>
     (again.changes = <<>> /\ DOMAIN again.updated = {})

C3_Witness ==
  /\ pc = "extract"
  /\ step > 0
  /\ Len(result.changes) >= 3
  /\ again.changes = <<>>

\* C4: starting without duplicates, no sequence of extract-and-evolve steps
\* puts two equal strings into preferredHeroes, nor two strings equal when
\* lower-cased into preferredRoles or learningGoals.
C4_NoDuplicatesEver ==
  /\ NoDuplicates(current.preferredHeroes)
  /\ NoDuplicatesIgnoringCase(current.preferredRoles)
  /\ NoDuplicatesIgnoringCase(current.learningGoals)

\* C7: evolveProfile returns only the fields that changed: the keys of
\* 'updated' are the fields of 'changes', each once, every change has a
\* newValue different from its oldValue and equal to the value in 'updated',
\* both are empty when the record holds no preferences, and skillLevel is
\* there, as one 'replace', exactly when the extracted skillLevel is present
\* and differs from the current one.
C7_OnlyChangedFields ==
  pc = "persist" =>
    LET ch == result.changes
        skill == {i \in DOMAIN ch : ch[i].field = "skillLevel"}
    IN /\ DOMAIN result.updated = {ch[i].field : i \in DOMAIN ch}
       /\ \A i, j \in DOMAIN ch : ch[i].field = ch[j].field => i = j
       /\ \A i \in DOMAIN ch :
            /\ ch[i].newValue # ch[i].oldValue
            /\ ch[i].oldValue = current[ch[i].field]
            /\ result.updated[ch[i].field] = ch[i].newValue
       /\ (~ hasPreferences(extracted)) => result = NoResult
       /\ (skill # {}) <=>
            (Has(extracted, "skillLevel") /\ extracted["skillLevel"] # current.skillLevel)
       /\ \A i \in skill :
            ch[i].action = "replace" /\ ch[i].newValue = extracted["skillLevel"]

C7_Witness ==
  /\ pc = "persist"
  /\ Len(result.changes) = 4
  /\ current.skillLevel = NULL
  /\ Has(result.updated, "skillLevel")
  /\ ~ Has(result.updated, "playstyle")

\* C5: a role outside the extractor's vocabulary (compared in lower case),
\* such as "jungler", is dropped by extractPreferences and never reaches
\* preferredRoles through extract -> evolve -> persist; a role inside the
\* vocabulary is kept as the model wrote it.
RepliedRoles ==
  IF reply.kind = "json" /\ isNonEmptyArray(prop(reply.value, "roles"))
  THEN {x.v : x \in {y \in Range(prop(reply.value, "roles").v) : y.t = "string"}}
  ELSE {}
InVocabulary(r) ==
  \E i \in DOMAIN validRoles : toLowerCase(r) = validRoles[i]
C5_RolesFiltered ==
  /\ [](pc # "extract" =>
          /\ Has(extracted, "roles") =>
               Range(extracted["roles"]) = {r \in RepliedRoles : InVocabulary(r)}
          /\ (~ Has(extracted, "roles")) => RepliedRoles = {})
  /\ [](sJungler \notin Range(current.preferredRoles))
  /\ [][\A r \in Range(current'.preferredRoles) :
           r \in Range(current.preferredRoles) \/ InVocabulary(r)]_vars

C5_Witness ==
  /\ pc = "again"
  /\ sJungler \in RepliedRoles
  /\ sMid \in Range(current.preferredRoles)
  /\ sCarryCap \in Range(current.preferredRoles)

----------------------------------------------------------------------------
(* Properties of the background tasks, checked under Spec *)

\* the request whose background task finishes in this step
Finishing(r) == reqPc[r] = "extracting" /\ reqPc'[r] = "done"

\* C2 as claimed: across any interleaving of the background tasks every
\* write is additive or a no-op with respect to what is stored at the moment
\* of the write, so no stored entry of the three lists is ever lost.
C2_AdditiveToStored ==
  [][\A f \in ListFields : IsPrefix(stored[f], stored'[f])]_vars

\* C2 as amended: only a finishing background task changes the stored
\* profile; what it writes to a list is additive to the snapshot its request
\* loaded, so additive to what is stored whenever the stored list still is
\* the snapshot's, and a list it does not write is left as stored.
C2_AdditiveToSnapshot ==
  [][/\ stored' # stored => \E r \in Reqs : Finishing(r)
     /\ \A r \in Reqs : Finishing(r) =>
          \A f \in ListFields :
             \/ stored'[f] = stored[f]
             \/ /\ IsPrefix(snapshot[r][f], stored'[f])
                /\ stored[f] = snapshot[r][f] => IsPrefix(stored[f], stored'[f])]_vars

C2_Witness ==
  \E a, b \in Reqs :
     /\ a # b
     /\ writes[a] = 1 /\ writes[b] = 1
     /\ snapshot[a] = snapshot[b]
     /\ snapshot[a].preferredHeroes # <<>>
     /\ Has(reqEvolution[a].updated, "preferredHeroes")
     /\ Has(reqEvolution[b].updated, "learningGoals")

\* the playstyle policy, for the profile C and the record X a finished task
\* handed to evolveProfile: replace when C is absent, nothing when lower(X)
\* is a substring of lower(C), merge to C + ", " + X otherwise
PlaystylePolicy(r) ==
  LET C == snapshot[r].playstyle
      X == reqExtracted[r]["playstyle"]
      ch == reqEvolution[r].changes
      ps == {i \in DOMAIN ch : ch[i].field = "playstyle"}
      upd == reqEvolution[r].updated
  IN IF ~ truthy(C)
     THEN /\ Has(upd, "playstyle") /\ upd["playstyle"] = X
          /\ Cardinality(ps) = 1
          /\ \A i \in ps : ch[i].action = "replace"
     ELSE IF includes(toLowerCase(C), toLowerCase(X))
     THEN ps = {} /\ ~ Has(upd, "playstyle")
     ELSE /\ Has(upd, "playstyle")
          /\ upd["playstyle"] = C \o <<",", " ">> \o X
          /\ Cardinality(ps) = 1
          /\ \A i \in ps : ch[i].action = "merge"

PlaystylePolicyHolds ==
  \A r \in Reqs :
     (reqPc[r] = "done" /\ Has(reqExtracted[r], "playstyle")) => PlaystylePolicy(r)

\* C6 as claimed: the playstyle policy of evolveProfile, and consequently a
\* stored playstyle is never truncated: every later value has the earlier
\* value as a prefix.
C6_PolicyAndStoredPrefix ==
  /\ []PlaystylePolicyHolds
  /\ [][truthy(stored.playstyle) => IsPrefix(stored.playstyle, stored'.playstyle)]_vars

\* C6 as amended: the playstyle policy of evolveProfile, and consequently
\* the playstyle a task writes has the playstyle of its own snapshot as a
\* prefix, so the stored value as a prefix whenever the stored playstyle
\* still is the snapshot's.
C6_PolicyAndSnapshotPrefix ==
  /\ []PlaystylePolicyHolds
  /\ [][\A r \in Reqs :
          (Finishing(r) /\ stored'.playstyle # stored.playstyle) =>
             /\ truthy(snapshot[r].playstyle) =>
                  IsPrefix(snapshot[r].playstyle, stored'.playstyle)
             /\ stored.playstyle = snapshot[r].playstyle =>
                  (truthy(stored.playstyle) =>
                     IsPrefix(stored.playstyle, stored'.playstyle))]_vars

C6_Witness ==
  \E a, b \in Reqs :
     /\ reqPc[a] = "done" /\ reqPc[b] = "done"
     /\ snapshot[a].playstyle = NULL
     /\ Has(reqEvolution[a].updated, "playstyle")
     /\ reqEvolution[a].updated["playstyle"] = sAggressive
     /\ snapshot[b].playstyle = sAggressive
     /\ Has(reqEvolution[b].updated, "playstyle")
     /\ stored.playstyle = sAggressive \o <<",", " ">> \o sFarming

----------------------------------------------------------------------------
(* SpecLLM: createLLMService on an environment, then one chat() call.      *)

Unset == "<unset>"
Restrict(e) == [k \in {x \in DOMAIN e : e[x] # Unset} |-> e[k]]

Environments ==
  { Restrict([ANTHROPIC_API_KEY |-> a, OPENAI_API_KEY |-> o,
              OPENROUTER_API_KEY |-> r, LLM_PROVIDER |-> p, LLM_MODEL |-> m]) :
      a \in {Unset, "", "sk-ant"},
      o \in {Unset, "", "sk-oai"},
      r \in {Unset, "", "sk-or"},
      p \in {Unset, "anthropic", "openai", "openrouter", "OpenAI", "gemini"},
      m \in {Unset, "custom-model"} }

Http(status, text, data) == [status |-> status, text |-> text, data |-> data]
Choice(content) == <<[message |-> [content |-> content]]>>
TextBlock(text) == [type |-> "text", text |-> text]

FailureResponses ==
  << Http(401, "unauthorized", EmptyRecord),
     Http(429, "rate limited", EmptyRecord),
     Http(500, "", EmptyRecord) >>

OpenAIResponses ==
  FailureResponses \o
  << Http(200, "", EmptyRecord),
     Http(200, "", [choices |-> <<>>]),
     Http(200, "", [choices |-> <<[finish_reason |-> "stop"]>>]),
     Http(200, "", [choices |-> Choice(<<>>)]),
     Http(200, "", [choices |-> Choice(<<" ">>)]),
     Http(200, "", [choices |-> Choice(<<"\n", " ">>)]),
     Http(200, "", [choices |-> Choice(<<"o", "k">>)]) >>

AnthropicResponses ==
  FailureResponses \o
  << Http(200, "", EmptyRecord),
     Http(200, "", [content |-> <<>>]),
     Http(200, "", [content |-> <<[type |-> "tool_use"]>>]),
     Http(200, "", [content |-> <<[type |-> "text"]>>]),
     Http(200, "", [content |-> <<TextBlock(<<>>), TextBlock(<<"o", "k">>)>>]),
     Http(200, "", [content |-> <<TextBlock(<<" ">>)>>]),
     Http(200, "", [content |-> <<[type |-> "tool_use"], TextBlock(<<"o", "k">>)>>]) >>

\* message sequences: the extractor's single user message, the chat
\* handler's system + history + user, and other ChatMessage[] values
MessageInputs ==
  << <<Msg("user", "U")>>,
     <<Msg("system", "S"), Msg("user", "U")>>,
     <<Msg("system", "S"), Msg("user", "H"), Msg("assistant", ""), Msg("user", "U")>>,
     <<Msg("system", ""), Msg("user", "U")>>,
     <<Msg("user", "H"), Msg("system", "S"), Msg("user", "U")>>,
     <<Msg("system", "S"), Msg("user", "U"), Msg("system", "T")>>,
     <<>> >>

\* temperature (in tenths) and maxTokens: chat()'s defaults, the chat
\* handler's and the extractor's
CallOptions ==
  << [temperature |-> 7, maxTokens |-> 1024],
     [temperature |-> 2, maxTokens |-> 400],
     [temperature |-> 1, maxTokens |-> 300] >>

ResponsesOf(svc) ==
  IF svc.provider = "anthropic" THEN AnthropicResponses ELSE OpenAIResponses

LLMInit ==
  /\ env \in Environments
  /\ service = [state |-> "none"]
  /\ callPc = "idle"
  /\ messages = <<>>
  /\ request = EmptyRecord
  /\ httpResp = [status |-> 0]
  /\ chatOutcome = [kind |-> "none"]
  /\ fetches = 0
  /\ EvolveIdle
  /\ ChatIdle
  /\ HandlerIdle
  /\ ExtractIdle
  /\ PromptIdle
  /\ ClientIdle

CreateService ==
  /\ service.state = "none"
  /\ service' = createLLMService(env)
  /\ UNCHANGED <<env, callPc, messages, request, httpResp, chatOutcome, fetches>>
  /\ UNCHANGED exceptLLM

\* chat() up to its await fetch(...)
ChatSend ==
  /\ service.state = "ok"
  /\ callPc = "idle"
  /\ \E i \in DOMAIN MessageInputs, j \in DOMAIN CallOptions :
       /\ messages' = MessageInputs[i]
       /\ request' = requestBody(service, MessageInputs[i], CallOptions[j])
  /\ fetches' = fetches + 1
  /\ callPc' = "awaiting"
  /\ UNCHANGED <<env, service, httpResp, chatOutcome>>
  /\ UNCHANGED exceptLLM

ProviderResponds ==
  /\ callPc = "awaiting"
  /\ \E i \in DOMAIN ResponsesOf(service) : httpResp' = ResponsesOf(service)[i]
  /\ callPc' = "responded"
  /\ UNCHANGED <<env, service, messages, request, chatOutcome, fetches>>
  /\ UNCHANGED exceptLLM

\* fetch() itself rejects: chat() rejects with that error
FetchFails ==
  /\ callPc = "awaiting"
  /\ chatOutcome' = Thrown(<<"fetch failed">>)
  /\ callPc' = "settled"
  /\ UNCHANGED <<env, service, messages, request, httpResp, fetches>>
  /\ UNCHANGED exceptLLM

\* chat() from the response to its return or throw
ChatSettle ==
  /\ callPc = "responded"
  /\ chatOutcome' = chat(service, httpResp)
  /\ callPc' = "settled"
  /\ UNCHANGED <<env, service, messages, request, httpResp, fetches>>
  /\ UNCHANGED exceptLLM

LLMNext == CreateService \/ ChatSend \/ ProviderResponds \/ FetchFails \/ ChatSettle

SpecLLM == LLMInit /\ [][LLMNext]_vars

----------------------------------------------------------------------------
(* SpecExtract: one extractPreferences call, from what llm.chat settled    *)
(* with to the record the call resolves to.                                *)

ExtractInit ==
  /\ completion \in GatewayOutcomes
  /\ parseResult = SyntaxError
  /\ returned = EmptyRecord
  /\ extractPc = "chat"
  /\ EvolveIdle
  /\ ChatIdle
  /\ HandlerIdle
  /\ LLMIdle
  /\ PromptIdle
  /\ ClientIdle

\* trim, fence match, JSON.parse
ParseReply ==
  /\ extractPc = "chat"
  /\ parseResult' = parseReply(completion)
  /\ extractPc' = "validate"
  /\ UNCHANGED <<completion, returned>>
  /\ UNCHANGED exceptExtract

\* validation of the parsed value, or the catch block
Validate ==
  /\ extractPc = "validate"
  /\ returned' = extractPreferences(parseResult)
  /\ extractPc' = "returned"
  /\ UNCHANGED <<completion, parseResult>>
  /\ UNCHANGED exceptExtract

ExtractNext == ParseReply \/ Validate

SpecExtract == ExtractInit /\ [][ExtractNext]_vars

----------------------------------------------------------------------------
(* SpecPrompt: buildPersonalizedPrompt and hasProfileData on one profile,  *)
(* then buildPersonalizedPrompt on a profile that differs from it outside  *)
(* the five preference fields only.                                        *)

HeroPool == <<sAxe, sLina, sIo, sOracle, sZeus, sLion, sTiny>>
RolePool == <<sCarryCap, sMid, sSupport>>
GoalPool == <<sWarding, sLastHitCap, sFarming, sMapAwareness>>

PromptProfiles ==
  { [DefaultProfile EXCEPT !.preferredHeroes = SubSeq(HeroPool, 1, h),
                           !.preferredRoles = SubSeq(RolePool, 1, r),
                           !.skillLevel = k, !.playstyle = p,
                           !.learningGoals = SubSeq(GoalPool, 1, g)] :
      h \in {0, 1, 4, 5, 6, 7},
      r \in {0, 1, 3},
      k \in {NULL, <<>>, sHerald},
      p \in {NULL, <<>>, sAggressive \o CommaSpace \o sFarming},
      g \in {0, 1, 3, 4} }

\* the same preferences in another row
Twins(profile) ==
  { [profile EXCEPT !.userId = 2, !.mmrBracket = m, !.createdAt = 1, !.updatedAt = 2] :
      m \in {NULL, sArchon} }

PromptInit ==
  /\ promptProfile \in PromptProfiles
  /\ prompt = <<>>
  /\ twinPrompt = <<>>
  /\ hasData = FALSE
  /\ promptPc = "render"
  /\ EvolveIdle
  /\ ChatIdle
  /\ HandlerIdle
  /\ LLMIdle
  /\ ExtractIdle
  /\ ClientIdle

Render ==
  /\ promptPc = "render"
  /\ prompt' = buildPersonalizedPrompt(promptProfile)
  /\ hasData' = hasProfileData(promptProfile)
  /\ promptPc' = "twin"
  /\ UNCHANGED <<promptProfile, twinPrompt>>
  /\ UNCHANGED exceptPrompt

RenderTwin ==
  /\ promptPc = "twin"
  /\ \E q \in Twins(promptProfile) : twinPrompt' = buildPersonalizedPrompt(q)
  /\ promptPc' = "done"
  /\ UNCHANGED <<promptProfile, prompt, hasData>>
  /\ UNCHANGED exceptPrompt

PromptNext == Render \/ RenderTwin

SpecPrompt == PromptInit /\ [][PromptNext]_vars

----------------------------------------------------------------------------
(* Web search: services/search.ts *)

Untitled == "Untitled"

\* organic_results.map(...): title ?? link ?? 'Untitled', link ?? '', snippet ?? ''
toCitation(r) ==
  [title |-> IF Has(r, "title") THEN r["title"]
             ELSE IF Has(r, "link") THEN r["link"] ELSE Untitled,
   url |-> IF Has(r, "link") THEN r["link"] ELSE "",
   snippet |-> IF Has(r, "snippet") THEN r["snippet"] ELSE ""]

\* searchWeb from the SerpAPI response on
searchWeb(resp) ==
  IF ~ ok(resp)
  THEN Thrown(<<"SerpAPI error ", ToString(resp.status), ": ", resp.text>>)
  ELSE LET items == IF Has(resp.data, "organic_results")
                    THEN [i \in DOMAIN resp.data["organic_results"] |->
                            toCitation(resp.data["organic_results"][i])]
                    ELSE <<>>
       IN [kind |-> "ok",
           results |-> slice(SelectSeq(items, LAMBDA c : c.url # ""), 5)]

----------------------------------------------------------------------------
(* SpecChat: the chat handler of routes/chat.ts whole: validation, the      *)
(* background task, web search, notes, prompt, the foreground llm.chat     *)
(* call and the response.                                                  *)

Response(status, json) == [status |-> status, body |-> json]

MessageRequired == Response(400, [error |-> "message is required"])
SerpKeyMissing == Response(500, [error |-> "SERPAPI_API_KEY is missing"])
GenericFailure == Response(500, [error |-> "Failed to complete request"])
NoSources ==
  Response(200,
    [answer |-> <<"I could not find relevant sources for that query right now. Try rephrasing or adding more specifics.">>,
     citations |-> <<>>])

DefaultSystemPrompt ==
  <<"You are a concise Dota 2 assistant. Use the provided sources. Cite with [n]. Keep answers tight and practical.">>

\* typeof req.body?.message === 'string' ? req.body.message : ''
messageOf(json) ==
  IF prop(json, "message").t = "string" THEN prop(json, "message").v ELSE <<>>

\* Array.isArray(req.body?.history) && req.body.history.length ? history : []
historyOf(json) ==
  IF isNonEmptyArray(prop(json, "history")) THEN prop(json, "history").v ELSE <<>>

\* variant: the role the client sent is kept
sanitizedHistory_asIs(history) ==
  [i \in DOMAIN history |->
     Msg(IF prop(history[i], "role").t = "string" THEN prop(history[i], "role").v
         ELSE "user",
         IF prop(history[i], "content").t \in {"undefined", "null"} THEN <<>>
         ELSE prop(history[i], "content").v)]

\* history.map((h) => ({role: h.role === 'assistant' ? 'assistant' : 'user',
\*                      content: h.content ?? ''}))
sanitizedHistory(history) ==
  [i \in DOMAIN history |->
     Msg(IF prop(history[i], "role") = JString("assistant") THEN "assistant" ELSE "user",
         IF prop(history[i], "content").t \in {"undefined", "null"} THEN <<>>
         ELSE prop(history[i], "content").v)]

\* the numbered source list of buildPrompt
numbered(sources) ==
  join([i \in DOMAIN sources |->
          trim(<<"[", ToString(i), "] ", sources[i].title, "\n",
                 sources[i].snippet, "\n", "URL: ", sources[i].url>>)],
       <<"\n", "\n">>)

buildPrompt(query, sources, profile) ==
  LET systemContent ==
        IF profile # NoProfile /\ hasProfileData(profile)
        THEN buildPersonalizedPrompt(profile)
        ELSE DefaultSystemPrompt
  IN [systemMessage |-> Msg("system", systemContent),
      userMessage |->
        Msg("user",
            <<"Question: ">> \o query \o <<"\n\nSources:\n">> \o numbered(sources)
              \o <<"\n\nInstructions: Answer in 3-6 sentences. Use [n] citations. If unsure, say so briefly.">>)]

\* variant: the prompt is built from the profile as stored when the search
\* returns
gatewayInput_reload(json, sources, profile) ==
  LET built == buildPrompt(messageOf(json), sources, getProfile(stored))
  IN <<built.systemMessage>> \o sanitizedHistory(historyOf(json))
       \o <<built.userMessage>>

\* [systemMessage, ...sanitizedHistory, userMessage] of the chat handler
gatewayInput(json, sources, profile) ==
  LET built == buildPrompt(messageOf(json), sources, profile)
  IN <<built.systemMessage>> \o sanitizedHistory(historyOf(json))
       \o <<built.userMessage>>

\* variant: only the first result is cited
citationsOf_first(results) ==
  [i \in {j \in DOMAIN results : j = 1} |->
     [title |-> results[i].title, url |-> results[i].url]]

\* serpResults.map((r) => ({title: r.title, url: r.url}))
citationsOf(results) ==
  [i \in DOMAIN results |-> [title |-> results[i].title, url |-> results[i].url]]

sHi == <<"h", "i">>

\* request bodies: a question with a history, a blank message, a message
\* that is not a string
Bodies ==
  { JObject(Put(Put(EmptyRecord, "message", JString(sHi)),
                "history", JArray(<<
                   JObject(Put(Put(EmptyRecord, "role", JString("system")),
                               "content", JString(sAxe))),
                   JObject(Put(EmptyRecord, "role", JString("assistant"))) >>))),
    Obj1("message", JString(<<" ">>)),
    Obj1("message", JNumber) }

SerpResponses ==
  << Http(429, "quota", EmptyRecord),
     Http(200, "", EmptyRecord),
     Http(200, "", [organic_results |->
        << [title |-> "Axe guide", link |-> "https://a.example", snippet |-> "Call."],
           [title |-> "No link"],
           [link |-> "https://b.example"] >>]) >>

\* what the foreground llm.chat call settles with
ChatOutcomes ==
  { Thrown(<<"LLM request failed (", "500", "): ", "">>),
    Completion(<<"o", "k">>) }

\* the replies drawn for the background tasks
HandlerReplies ==
  { [kind |-> "throw", value |-> JNull],
    Json(Obj1("heroes", Strs(<<sAxe>>))) }

HandlerRows == {DefaultProfile, FilledProfile, NoRow}

ChatInit ==
  /\ stored \in HandlerRows
  /\ reqPc = [r \in Reqs |-> "idle"]
  /\ snapshot = [r \in Reqs |-> DefaultProfile]
  /\ reqExtracted = [r \in Reqs |-> EmptyRecord]
  /\ reqEvolution = [r \in Reqs |-> NoResult]
  /\ evolutions = [r \in Reqs |-> 0]
  /\ extractCalls = [r \in Reqs |-> 0]
  /\ writes = [r \in Reqs |-> 0]
  /\ clock = 0
  /\ serpApiKey \in {"", "serp-key"}
  /\ reqBody = [r \in Reqs |-> EmptyRecord]
  /\ fgPc = [r \in Reqs |-> "idle"]
  /\ responses = [r \in Reqs |-> <<>>]
  /\ serpResults = [r \in Reqs |-> <<>>]
  /\ chatMessages = [r \in Reqs |-> <<>>]
  /\ searchCalls = [r \in Reqs |-> 0]
  /\ chatCalls = [r \in Reqs |-> 0]
  /\ notes = [r \in Reqs |-> 0]
  /\ settled = [r \in Reqs |-> <<>>]
  /\ EvolveIdle
  /\ LLMIdle
  /\ ExtractIdle
  /\ PromptIdle
  /\ ClientIdle

\* variant: the response waits for the background task to settle
respond_afterBackground(r, response) ==
  /\ reqPc[r] # "extracting"
  /\ responses' = [responses EXCEPT ![r] = Append(@, response)]
  /\ fgPc' = [fgPc EXCEPT ![r] = "responded"]

\* res.json(...) or res.status(...).json(...): the handler is done
respond(r, response) ==
  /\ responses' = [responses EXCEPT ![r] = Append(@, response)]
  /\ fgPc' = [fgPc EXCEPT ![r] = "responded"]

\* variant: the profile is loaded and the background task started before
\* the request is validated
PostChat_eager(r) ==
  /\ fgPc[r] = "idle"
  /\ \A q \in Reqs : q < r => fgPc[q] # "idle"
  /\ startBackground(r)
  /\ \E json \in Bodies :
       /\ reqBody' = [reqBody EXCEPT ![r] = json]
       /\ IF trim(messageOf(json)) = <<>>
          THEN /\ respond(r, MessageRequired)
               /\ UNCHANGED searchCalls
          ELSE IF serpApiKey = ""
          THEN /\ respond(r, SerpKeyMissing)
               /\ UNCHANGED searchCalls
          ELSE /\ searchCalls' = [searchCalls EXCEPT ![r] = @ + 1]
               /\ fgPc' = [fgPc EXCEPT ![r] = "searching"]
               /\ UNCHANGED responses
  /\ UNCHANGED <<serpApiKey, serpResults, chatMessages, chatCalls, notes, settled>>
  /\ UNCHANGED exceptHandler

\* POST /api/chat up to its first await: validation, getProfile, the
\* background task started, searchWeb called.  Requests are numbered in the
\* order they arrive.
PostChat(r) ==
  /\ fgPc[r] = "idle"
  /\ \A q \in Reqs : q < r => fgPc[q] # "idle"
  /\ \E json \in Bodies :
       /\ reqBody' = [reqBody EXCEPT ![r] = json]
       /\ IF trim(messageOf(json)) = <<>>
          THEN /\ respond(r, MessageRequired)
               /\ UNCHANGED <<searchCalls, chatVars>>
          ELSE IF serpApiKey = ""
          THEN /\ respond(r, SerpKeyMissing)
               /\ UNCHANGED <<searchCalls, chatVars>>
          ELSE /\ startBackground(r)
               /\ searchCalls' = [searchCalls EXCEPT ![r] = @ + 1]
               /\ fgPc' = [fgPc EXCEPT ![r] = "searching"]
               /\ UNCHANGED responses
  /\ UNCHANGED <<serpApiKey, serpResults, chatMessages, chatCalls, notes, settled>>
  /\ UNCHANGED exceptHandler

\* the handler from the settled searchWeb to its next await or its response
SearchReturns(r) ==
  /\ fgPc[r] = "searching"
  /\ \E i \in DOMAIN SerpResponses :
       LET found == searchWeb(SerpResponses[i])
       IN /\ settled' = [settled EXCEPT ![r] = Append(@, found.kind)]
          /\ IF found.kind = "error"
             THEN /\ respond(r, GenericFailure)
                  /\ UNCHANGED <<serpResults, chatMessages, chatCalls, notes>>
             ELSE IF Len(found.results) = 0
             THEN /\ respond(r, NoSources)
                  /\ UNCHANGED <<serpResults, chatMessages, chatCalls, notes>>
             ELSE /\ serpResults' = [serpResults EXCEPT ![r] = found.results]
                  /\ notes' = [notes EXCEPT ![r] = @ + Len(found.results)]
                  /\ chatMessages' = [chatMessages EXCEPT ![r] =
                       gatewayInput(reqBody[r], found.results, snapshot[r])]
                  /\ chatCalls' = [chatCalls EXCEPT ![r] = @ + 1]
                  /\ fgPc' = [fgPc EXCEPT ![r] = "chatting"]
                  /\ UNCHANGED responses
  /\ UNCHANGED <<serpApiKey, reqBody, searchCalls>>
  /\ UNCHANGED chatVars
  /\ UNCHANGED exceptHandler

\* variant: a failed llm.chat call is made once more
ChatReturns_retry(r) ==
  /\ fgPc[r] = "chatting"
  /\ \E out \in ChatOutcomes :
       /\ settled' = [settled EXCEPT ![r] = Append(@, out.kind)]
       /\ IF out.kind = "error" /\ chatCalls[r] < 2
          THEN /\ chatCalls' = [chatCalls EXCEPT ![r] = @ + 1]
               /\ UNCHANGED <<responses, fgPc>>
          ELSE IF out.kind = "error"
          THEN respond(r, GenericFailure) /\ UNCHANGED chatCalls
          ELSE /\ respond(r, Response(200, [answer |-> out.content,
                                            citations |-> citationsOf(serpResults[r])]))
               /\ UNCHANGED chatCalls
  /\ UNCHANGED <<serpApiKey, reqBody, serpResults, chatMessages, searchCalls, notes>>
  /\ UNCHANGED chatVars
  /\ UNCHANGED exceptHandler

\* the handler from the settled llm.chat to its response
ChatReturns(r) ==
  /\ fgPc[r] = "chatting"
  /\ \E out \in ChatOutcomes :
       /\ settled' = [settled EXCEPT ![r] = Append(@, out.kind)]
       /\ IF out.kind = "error"
          THEN respond(r, GenericFailure)
          ELSE respond(r, Response(200, [answer |-> out.content,
                                         citations |-> citationsOf(serpResults[r])]))
  /\ UNCHANGED <<serpApiKey, reqBody, serpResults, chatMessages, searchCalls,
                 chatCalls, notes>>
  /\ UNCHANGED chatVars
  /\ UNCHANGED exceptHandler

\* the background task from the settled extraction call to its end
BackgroundReturns(r) ==
  /\ reqPc[r] = "extracting"
  /\ \E rep \in HandlerReplies : extractAndUpdateProfile(r, rep)
  /\ reqPc' = [reqPc EXCEPT ![r] = "done"]
  /\ UNCHANGED <<snapshot, extractCalls, clock>>
  /\ UNCHANGED exceptChat

\* variant: when the UPDATE throws the task is run once more
BackgroundWriteFails_retry(r) ==
  /\ reqPc[r] = "extracting"
  /\ extractCalls[r] < 2
  /\ \E rep \in HandlerReplies :
       LET ext == extractPreferences(rep)
           evo == evolveProfile(snapshot[r], ext)
       IN /\ hasPreferences(ext)
          /\ Len(evo.changes) > 0
          /\ reqExtracted' = [reqExtracted EXCEPT ![r] = ext]
          /\ reqEvolution' = [reqEvolution EXCEPT ![r] = evo]
          /\ evolutions' = [evolutions EXCEPT ![r] = @ + 1]
  /\ extractCalls' = [extractCalls EXCEPT ![r] = @ + 1]
  /\ UNCHANGED <<stored, reqPc, snapshot, writes, clock>>
  /\ UNCHANGED exceptChat

\* the background task when the UPDATE throws: the promise rejects and the
\* handler's .catch logs it
BackgroundWriteFails(r) ==
  /\ reqPc[r] = "extracting"
  /\ \E rep \in HandlerReplies :
       LET ext == extractPreferences(rep)
           evo == evolveProfile(snapshot[r], ext)
       IN /\ hasPreferences(ext)
          /\ Len(evo.changes) > 0
          /\ reqExtracted' = [reqExtracted EXCEPT ![r] = ext]
          /\ reqEvolution' = [reqEvolution EXCEPT ![r] = evo]
          /\ evolutions' = [evolutions EXCEPT ![r] = @ + 1]
  /\ reqPc' = [reqPc EXCEPT ![r] = "failed"]
  /\ UNCHANGED <<stored, snapshot, extractCalls, writes, clock>>
  /\ UNCHANGED exceptChat

Foreground == \E r \in Reqs : PostChat(r) \/ SearchReturns(r) \/ ChatReturns(r)
Background == \E r \in Reqs : BackgroundReturns(r) \/ BackgroundWriteFails(r)

ChatNext == Foreground \/ Background

SpecChat == ChatInit /\ [][ChatNext]_vars

\* SpecChat where the search call and the foreground llm.chat call of every
\* request settle and the handler is resumed; nothing is assumed of the
\* background tasks, which may stay pending for ever
SpecChatLive ==
  /\ SpecChat
  /\ \A r \in Reqs : WF_vars(SearchReturns(r)) /\ WF_vars(ChatReturns(r))

----------------------------------------------------------------------------
(* SpecClient: the web client of web/src/App.tsx sending one question      *)
(* after another to a server that is configured with a search key and the  *)
(* Anthropic provider.                                                     *)

\* requests the client sends
MaxSends == 3

Greeting ==
  Msg("assistant", <<"Ask me anything about Dota 2. I'll search the web and include sources.">>)

\* what the user types
ClientInputs == { sHi, <<" ", "g", "o", " ">> }

\* the answers of the provider
ClientAnswers == { <<"o", "k">> }

\* messages.filter(user or assistant).map(({role, content}) => ...), as the
\* JSON array of the request body
historyForApi(msgs) ==
  LET kept == SelectSeq(msgs, LAMBDA m : m.role \in {"user", "assistant"})
  IN JArray([i \in DOMAIN kept |->
               JObject(Put(Put(EmptyRecord, "role", JString(kept[i].role)),
                           "content", JString(kept[i].content)))])

\* the search results of the requests of SpecClient and SpecHistory
FoundSources == searchWeb(SerpResponses[3]).results

ClientInit ==
  /\ uiMessages = <<Greeting>>
  /\ uiPc = "idle"
  /\ uiRequest = EmptyRecord
  /\ gatewayMessages = <<>>
  /\ wire = <<>>
  /\ sends = 0
  /\ EvolveIdle
  /\ ChatIdle
  /\ HandlerIdle
  /\ LLMIdle
  /\ ExtractIdle
  /\ PromptIdle

\* onSend up to the fetch
OnSend ==
  /\ uiPc = "idle"
  /\ sends < MaxSends
  /\ \E input \in ClientInputs :
       LET trimmed == trim(input)
       IN /\ trimmed # <<>>
          /\ uiMessages' = Append(uiMessages, Msg("user", trimmed))
          /\ uiRequest' = JObject(Put(Put(EmptyRecord, "message", JString(trimmed)),
                                      "history", historyForApi(uiMessages)))
  /\ uiPc' = "loading"
  /\ sends' = sends + 1
  /\ gatewayMessages' = <<>>
  /\ wire' = <<>>
  /\ UNCHANGED exceptClient

\* the handler, its search having found sources, calls llm.chat, and
\* chatAnthropic posts the request
ServerCallsProvider ==
  /\ uiPc = "loading"
  /\ gatewayMessages = <<>>
  /\ gatewayMessages' = gatewayInput(uiRequest, FoundSources, DefaultProfile)
  /\ wire' = conversationMessages(gatewayInput(uiRequest, FoundSources, DefaultProfile))
  /\ UNCHANGED <<uiMessages, uiPc, uiRequest, sends>>
  /\ UNCHANGED exceptClient

\* res.ok: the provider's answer, or the canned answer of a search without
\* results
ResponseOk ==
  /\ uiPc = "loading"
  /\ \E answer \in (IF wire = <<>> THEN {NoSources.body.answer} ELSE ClientAnswers) :
       uiMessages' = Append(uiMessages, Msg("assistant", answer))
  /\ uiPc' = "idle"
  /\ UNCHANGED <<uiRequest, gatewayMessages, wire, sends>>
  /\ UNCHANGED exceptClient

\* !res.ok (the search or the provider failed) or a network error: the
\* question stays in the messages state without an answer
ResponseFails ==
  /\ uiPc = "loading"
  /\ uiPc' = "idle"
  /\ UNCHANGED <<uiMessages, uiRequest, gatewayMessages, wire, sends>>
  /\ UNCHANGED exceptClient

ClientNext == OnSend \/ ServerCallsProvider \/ ResponseOk \/ ResponseFails

SpecClient == ClientInit /\ [][ClientNext]_vars

----------------------------------------------------------------------------
(* SpecHistory: one accepted chat request with any history a client can    *)
(* put into the body, from the handler's llm.chat call to the request of   *)
(* chatAnthropic.                                                          *)

\* entries of a history
MaxHistory == 2

HistoryEntries ==
  { JObject(Put(Put(EmptyRecord, "role", JString("user")), "content", JString(sAxe))),
    JObject(Put(Put(EmptyRecord, "role", JString("assistant")), "content", JString(sLina))),
    JObject(Put(Put(EmptyRecord, "role", JString("system")), "content", JString(sAxe))),
    JObject(Put(EmptyRecord, "role", JString("Assistant"))),
    JObject(Put(EmptyRecord, "content", JString(sLina))),
    JNumber,
    JNull }

RECURSIVE SeqsUpTo(_, _)
SeqsUpTo(S, n) ==
  IF n = 0 THEN {<<>>}
  ELSE SeqsUpTo(S, n - 1)
         \cup {Append(q, x) : q \in {p \in SeqsUpTo(S, n - 1) : Len(p) = n - 1}, x \in S}

\* the bodies: a question with every history of up to MaxHistory entries,
\* with a history that is not an array, and without a history
HistoryBodies ==
  { JObject(Put(Put(EmptyRecord, "message", JString(sHi)), "history", JArray(h))) :
      h \in SeqsUpTo(HistoryEntries, MaxHistory) }
  \cup { JObject(Put(Put(EmptyRecord, "message", JString(sHi)), "history", JNumber)),
         Obj1("message", JString(sHi)) }

\* h.role of an entry that is null or undefined: a TypeError, which the
\* handler's catch block turns into the failure response
historyThrows(history) ==
  \E i \in DOMAIN history : history[i].t \in {"null", "undefined"}

HistoryInit ==
  /\ uiMessages = <<>>
  /\ uiPc = "posted"
  /\ uiRequest \in HistoryBodies
  /\ gatewayMessages = <<>>
  /\ wire = <<>>
  /\ sends = 1
  /\ EvolveIdle
  /\ ChatIdle
  /\ HandlerIdle
  /\ LLMIdle
  /\ ExtractIdle
  /\ PromptIdle

\* the handler, its search having found sources, builds the messages and
\* calls llm.chat
HandlerCallsChat ==
  /\ uiPc = "posted"
  /\ IF historyThrows(historyOf(uiRequest))
     THEN uiPc' = "failed" /\ UNCHANGED gatewayMessages
     ELSE /\ gatewayMessages' = gatewayInput(uiRequest, FoundSources, DefaultProfile)
          /\ uiPc' = "called"
  /\ UNCHANGED <<uiMessages, uiRequest, wire, sends>>
  /\ UNCHANGED exceptClient

\* chatAnthropic posts its request
AnthropicSends ==
  /\ uiPc = "called"
  /\ wire' = conversationMessages(gatewayMessages)
  /\ uiPc' = "sent"
  /\ UNCHANGED <<uiMessages, uiRequest, gatewayMessages, sends>>
  /\ UNCHANGED exceptClient

HistoryNext == HandlerCallsChat \/ AnthropicSends

SpecHistory == HistoryInit /\ [][HistoryNext]_vars

----------------------------------------------------------------------------
(* Properties of the gateway, checked under SpecLLM *)

Answered == callPc = "settled" /\ httpResp.status # 0

\* the completion string of a 2xx response, as the provider sent it
CompletionSent ==
  IF service.provider = "anthropic" THEN anthropicText(httpResp.data)
  ELSE openAIContent(httpResp.data)

IsEmptyCompletionError(out) ==
  /\ out.kind = "error"
  /\ out.message \in {<<"Empty response from LLM">>, <<"Empty response from Anthropic">>}

\* C8: for every provider chat returns a completion whose text is non-empty
\* or fails with the empty-completion error: a 2xx response whose completion
\* string is missing, empty or whitespace-only yields the error and is never
\* returned as an answer.
C8_NoBlankCompletion ==
  (Answered /\ ok(httpResp)) =>
     /\ chatOutcome.kind = "ok" => trim(chatOutcome.content) # <<>>
     /\ trim(CompletionSent) = <<>> => IsEmptyCompletionError(chatOutcome)

\* C9: for every provider a non-2xx status makes chat fail with an error
\* that carries the status code and the raw response body; no completion is
\* returned and the request is not sent again.
C9_TransportFailure ==
  (Answered /\ ~ ok(httpResp)) =>
     /\ chatOutcome.kind = "error"
     /\ Len(chatOutcome.message) = 4
     /\ chatOutcome.message[2] = ToString(httpResp.status)
     /\ chatOutcome.message[4] = httpResp.text
     /\ fetches = 1

C9_Witness ==
  /\ Answered
  /\ httpResp.status = 429
  /\ service.provider = "anthropic"
  /\ chatOutcome.kind = "error"

\* C10: createLLMService selects the preferred provider when its key is
\* present, otherwise the first of Anthropic, OpenAI, OpenRouter whose key is
\* present, and fails with the no-provider error when no key is present; the
\* selected provider always is one whose key is present.
Preference == IF Has(env, "LLM_PROVIDER") THEN env["LLM_PROVIDER"] ELSE Unset
PreferenceUsable ==
  \E i \in DOMAIN Providers :
     Preference = Providers[i] /\ present(env, KeyOf[Providers[i]])
C10_ProviderSelection ==
  service.state # "none" =>
     /\ PreferenceUsable =>
          (service.state = "ok" /\ service.provider = Preference)
     /\ (~ PreferenceUsable) =>
          \A i \in DOMAIN Providers :
             (/\ present(env, KeyOf[Providers[i]])
              /\ \A j \in 1..(i - 1) : ~ present(env, KeyOf[Providers[j]]))
             => (service.state = "ok" /\ service.provider = Providers[i])
     /\ (\A i \in DOMAIN Providers : ~ present(env, KeyOf[Providers[i]]))
          <=> service = NoProviderConfigured
     /\ service.state = "ok" =>
          /\ present(env, KeyOf[service.provider])
          /\ service.apiKey = env[KeyOf[service.provider]]

C10_Witness ==
  /\ service.state = "ok"
  /\ service.provider = "openai"
  /\ Preference = "openai"
  /\ present(env, "ANTHROPIC_API_KEY")
  /\ present(env, "OPENAI_API_KEY")

\* the positions of the input messages that are not system messages
NonSystem == {i \in DOMAIN messages : messages[i].role # "system"}

\* the 'messages' array of the payload holds no system message and holds
\* the non-system input messages, all of them, in their input order
MessagesShaped ==
  /\ \A k \in DOMAIN request.messages : request.messages[k].role # "system"
  /\ Len(request.messages) = Cardinality(NonSystem)
  /\ \A i \in NonSystem :
       request.messages[Cardinality({j \in NonSystem : j <= i})] = messages[i]

SystemThenUser ==
  /\ Len(messages) = 2
  /\ messages[1].role = "system"
  /\ messages[2].role = "user"

AnthropicSent == callPc # "idle" /\ service.provider = "anthropic"

----------------------------------------------------------------------------
(* Properties of the extractor, checked under SpecExtract *)

PreferenceFields == {"heroes", "roles", "skillLevel", "playstyle", "learningGoals"}

\* the call hit an exception: llm.chat rejected, JSON.parse threw, or the
\* parsed value is null, whose properties cannot be read
ExtractionException ==
  \/ completion.kind = "error"
  \/ parseResult.kind = "throw"
  \/ parseResult.value.t = "null"

\* C12: extractPreferences never fails towards its caller: whatever llm.chat
\* settled with, what the call hands back is a record of preference fields,
\* never an error, and when llm.chat rejected, the text did not parse or the
\* validation threw, that record is {} and hasPreferences is false for it;
\* so it is for JSON that is not an object.
C12_ExtractionNeverFails ==
  /\ (extractPc # "chat" /\ completion.kind = "error") => parseResult.kind = "throw"
  /\ extractPc = "returned" =>
       /\ DOMAIN returned \subseteq PreferenceFields
       /\ ExtractionException =>
            (returned = EmptyRecord /\ ~ hasPreferences(returned))
       /\ parseResult.value.t # "object" => ~ hasPreferences(returned)

C12_Witness ==
  /\ extractPc = "returned"
  /\ completion.kind = "ok"
  /\ includes(completion.content, Prose)
  /\ parseResult = SyntaxError
  /\ returned = EmptyRecord

\* the strings among the items of a parsed array that pass 'keep', as the
\* positions of the array
KeptItems(arr, keep(_)) == {i \in DOMAIN arr : arr[i].t = "string" /\ keep(arr[i].v)}

\* 'list' is the kept items of 'arr', in the order of 'arr'
IsFiltered(list, arr, keep(_)) ==
  /\ Len(list) = Cardinality(KeptItems(arr, keep))
  /\ \A i \in KeptItems(arr, keep) :
       list[Cardinality({j \in KeptItems(arr, keep) : j <= i})] = arr[i].v

AnyString(x) == TRUE
RoleVocabulary == {sCarry, sMid, sOfflane, sSoftSupport, sHardSupport, sSupport}
InRoleVocabulary(r) == toLowerCase(r) \in RoleVocabulary

\* C13: every record extractPreferences returns is schema-valid: heroes and
\* learningGoals, when present, are the string items of the model's array;
\* roles, when present, the string items inside the role vocabulary;
\* skillLevel and playstyle, when present, a non-empty string, the trimmed
\* model value; and no other field is present.
C13_SchemaValid ==
  extractPc = "returned" =>
     LET model == parseResult.value IN
     /\ DOMAIN returned \subseteq PreferenceFields
     /\ \A f \in {"heroes", "learningGoals"} : Has(returned, f) =>
          /\ prop(model, f).t = "array"
          /\ IsFiltered(returned[f], prop(model, f).v, AnyString)
     /\ Has(returned, "roles") =>
          /\ prop(model, "roles").t = "array"
          /\ IsFiltered(returned["roles"], prop(model, "roles").v, InRoleVocabulary)
          /\ \A i \in DOMAIN returned["roles"] : InRoleVocabulary(returned["roles"][i])
     /\ \A f \in {"skillLevel", "playstyle"} : Has(returned, f) =>
          /\ prop(model, f).t = "string"
          /\ returned[f] # <<>>
          /\ returned[f] = trim(prop(model, f).v)
          /\ returned[f][1] \notin WhiteSpace
          /\ returned[f][Len(returned[f])] \notin WhiteSpace

C13_Witness ==
  /\ extractPc = "returned"
  /\ Has(returned, "skillLevel") /\ returned["skillLevel"] = sArchon
  /\ prop(parseResult.value, "skillLevel").v # sArchon
  /\ Has(returned, "playstyle")
  /\ ~ Has(returned, "heroes")

----------------------------------------------------------------------------
(* Properties of hasPreferences and the background task, checked under Spec *)

\* a field of an extracted record is populated: present, and not an empty
\* array or an empty string
Populated(E, f) == Has(E, f) /\ E[f] # <<>>

Settled(r) == reqPc[r] = "done"

\* C14: hasPreferences(E) is true exactly when one of the five fields of E
\* is present and non-empty; a record whose only field is an array that the
\* filtering left empty counts as no preferences; and for a record without
\* preferences the background task neither evolves the profile nor writes.
C14_NoPreferencesNoWrite ==
  /\ [](\A r \in Reqs : Settled(r) =>
          /\ hasPreferences(reqExtracted[r]) <=>
               \E f \in PreferenceFields : Populated(reqExtracted[r], f)
          /\ (DOMAIN reqExtracted[r] = {"roles"} /\ reqExtracted[r]["roles"] = <<>>)
               => ~ hasPreferences(reqExtracted[r])
          /\ (~ hasPreferences(reqExtracted[r])) =>
               (evolutions[r] = 0 /\ writes[r] = 0 /\ reqEvolution[r] = NoResult)
          /\ hasPreferences(reqExtracted[r]) => evolutions[r] = 1)
  /\ [][\A r \in Reqs :
          (Finishing(r) /\ ~ hasPreferences(reqExtracted'[r])) => stored' = stored]_vars

C14_Witness ==
  \E a, b \in Reqs :
     /\ Settled(a) /\ Settled(b)
     /\ DOMAIN reqExtracted[a] = {"roles"} /\ reqExtracted[a]["roles"] = <<>>
     /\ evolutions[a] = 0 /\ writes[a] = 0
     /\ DOMAIN reqExtracted[b] = {"learningGoals"}
     /\ evolutions[b] = 1 /\ writes[b] = 1

----------------------------------------------------------------------------
(* Properties of the system prompt, checked under SpecPrompt *)

\* the phrase that opens the sentence of each field, in the order of the
\* template, with what populates the field
Openers == <<"You are helping a ", "They main: ", "They prefer playing ",
             "Their playstyle is ", "Current learning goals: ">>
FieldOf == <<"skillLevel", "preferredHeroes", "preferredRoles", "playstyle",
             "learningGoals">>
FieldPopulated(profile, k) ==
  IF FieldOf[k] \in ListFields THEN profile[FieldOf[k]] # <<>>
  ELSE profile[FieldOf[k]] # NULL /\ profile[FieldOf[k]] # <<>>

PositionsOf(item) == {i \in DOMAIN prompt : prompt[i] = item}
PositionOf(item) == CHOOSE i \in DOMAIN prompt : prompt[i] = item

\* the first n elements of a list, all of them when it has fewer
FirstN(list, n) == [i \in 1..(IF Len(list) < n THEN Len(list) ELSE n) |-> list[i]]

\* where the k-th name starts in the listing of 'names' joined by ", "
RECURSIVE OffsetOf(_, _)
OffsetOf(names, k) ==
  IF k = 1 THEN 0 ELSE OffsetOf(names, k - 1) + Len(names[k - 1]) + 2

\* from position 'at' on, 'text' lists exactly 'names', comma-separated, and
\* ends the sentence with 'closer'
Lists(text, at, names, closer) ==
  LET n == Len(names)
      end == at + OffsetOf(names, n) + Len(names[n])
  IN /\ \A k \in 1..n :
          SubSeq(text, at + OffsetOf(names, k),
                 at + OffsetOf(names, k) + Len(names[k]) - 1) = names[k]
     /\ \A k \in 1..(n - 1) :
          SubSeq(text, at + OffsetOf(names, k) + Len(names[k]),
                 at + OffsetOf(names, k) + Len(names[k]) + 1) = CommaSpace
     /\ text[end] = closer
     /\ text[end + 1] = " "
     /\ text[end + 2] \in Range(Openers) \cup Range(ClosingInstruction)

\* what the sentence of field k has to list
Listed(profile, k) ==
  CASE k = 1 -> <<profile.skillLevel>>
    [] k = 2 -> FirstN(profile.preferredHeroes, 5)
    [] k = 3 -> profile.preferredRoles
    [] k = 4 -> <<profile.playstyle>>
    [] k = 5 -> FirstN(profile.learningGoals, 3)

\* C15: between the base sentence and the closing instruction the prompt has
\* one sentence for each populated field and none for an absent or empty
\* one, in the order skill level, heroes, roles, playstyle, learning goals;
\* the heroes sentence lists the first min(5, n) heroes, the goals sentence
\* the first min(3, n) goals, the roles sentence all roles, in stored order.
C15_PromptSentences ==
  promptPc # "render" =>
     /\ prompt[1] = BaseSentence[1]
     /\ prompt[Len(prompt)] = ClosingInstruction[1]
     /\ Cardinality(PositionsOf(BaseSentence[1])) = 1
     /\ Cardinality(PositionsOf(ClosingInstruction[1])) = 1
     /\ \A k \in DOMAIN Openers :
          /\ Cardinality(PositionsOf(Openers[k])) =
               IF FieldPopulated(promptProfile, k) THEN 1 ELSE 0
          /\ FieldPopulated(promptProfile, k) =>
               Lists(prompt, PositionOf(Openers[k]) + 1, Listed(promptProfile, k),
                     IF k = 1 THEN " player." ELSE ".")
     /\ \A k, l \in DOMAIN Openers :
          (k < l /\ FieldPopulated(promptProfile, k) /\ FieldPopulated(promptProfile, l))
             => PositionOf(Openers[k]) < PositionOf(Openers[l])
     /\ prompt[2] = " "
     /\ prompt[3] \in Range(Openers) \cup Range(ClosingInstruction)

C15_Witness ==
  /\ promptPc = "done"
  /\ Len(promptProfile.preferredHeroes) = 7
  /\ Len(promptProfile.learningGoals) = 4
  /\ Len(promptProfile.preferredRoles) = 3
  /\ promptProfile.skillLevel = <<>>
  /\ promptProfile.playstyle # NULL /\ promptProfile.playstyle # <<>>
  /\ ~ includes(prompt, sLion)
  /\ includes(prompt, sZeus)

\* the prompt holds the sentence of some field
SomeFieldSentence == \E k \in DOMAIN Openers : PositionsOf(Openers[k]) # {}

\* C16: hasProfileData is true exactly when one of heroes, roles,
\* skillLevel, playstyle, learningGoals is populated, which is exactly when
\* the prompt holds a field sentence; for an empty profile the prompt is the
\* base sentence and the closing instruction only; and a profile equal on
\* the five fields renders the same text.
C16_DataIffSentence ==
  /\ promptPc # "render" =>
       /\ hasData <=> \E k \in DOMAIN Openers : FieldPopulated(promptProfile, k)
       /\ hasData <=> SomeFieldSentence
       /\ (~ hasData) => prompt = BaseSentence \o <<" ">> \o ClosingInstruction
  /\ promptPc = "done" => twinPrompt = prompt

C16_Witness ==
  /\ promptPc = "done"
  /\ hasData
  /\ promptProfile.preferredHeroes = <<>>
  /\ promptProfile.preferredRoles = <<>>
  /\ ~ truthy(promptProfile.skillLevel)
  /\ ~ truthy(promptProfile.playstyle)
  /\ Len(promptProfile.learningGoals) = 1
  /\ twinPrompt = prompt

----------------------------------------------------------------------------
(* Properties of the chat handler, checked under SpecChat and SpecChatLive *)

Accepted(r) == searchCalls[r] > 0
Responded(r) == fgPc[r] = "responded"

\* a step of the background task of request r
BackgroundStep(r) == reqPc[r] = "extracting" /\ reqPc'[r] # "extracting"

\* C17: the background path does not gate the response: every accepted
\* request is answered whether its background task is pending, pending for
\* ever, done or failed; no step of a background task sends or changes a
\* response; and a response, once sent, stays as it is.
C17_BackgroundNeverGates ==
  /\ \A r \in Reqs : (fgPc[r] \in {"searching", "chatting"}) ~> Responded(r)
  /\ [][\A r \in Reqs :
          /\ BackgroundStep(r) => (responses' = responses /\ fgPc' = fgPc)
          /\ responses[r] # <<>> => responses'[r] = responses[r]]_vars

C17_Witness ==
  \E a, b \in Reqs :
     /\ Responded(a) /\ reqPc[a] = "extracting"
     /\ responses[a][1].status = 200 /\ chatCalls[a] = 1
     /\ Responded(b) /\ reqPc[b] = "failed"
     /\ responses[b][1].status = 200 /\ chatCalls[b] = 1

----------------------------------------------------------------------------
(* C18 *)

FullAnswer(resp) == resp.status = 200 /\ DOMAIN resp.body = {"answer", "citations"}
ErrorBody(resp) == resp.status \in {400, 500} /\ DOMAIN resp.body = {"error"}

\* an awaited call of the handler (searchWeb or llm.chat) threw
ForegroundFailed(r) == \E i \in DOMAIN settled[r] : settled[r][i] = "error"

\* C18: a handler that has finished has sent exactly one response and one
\* that has not has sent none; every response is a 200 with exactly
\* {answer, citations} or an error status with exactly {error}; searchWeb
\* and the foreground llm.chat are called at most once per request, and when
\* either throws the single response is the generic failure with a 5xx
\* status.
C18_OneResponse ==
  \A r \in Reqs :
     /\ Len(responses[r]) = (IF fgPc[r] = "responded" THEN 1 ELSE 0)
     /\ \A i \in DOMAIN responses[r] :
          /\ FullAnswer(responses[r][i]) \/ ErrorBody(responses[r][i])
          /\ ~ (FullAnswer(responses[r][i]) /\ ErrorBody(responses[r][i]))
     /\ searchCalls[r] <= 1
     /\ chatCalls[r] <= 1
     /\ Len(settled[r]) <= searchCalls[r] + chatCalls[r]
     /\ ForegroundFailed(r) =>
          /\ responses[r] = <<GenericFailure>>
          /\ GenericFailure.status \in 500..599
          /\ DOMAIN GenericFailure.body = {"error"}

\* one request whose search threw and one whose llm.chat threw, both answered
\* with the generic failure
C18_Witness ==
  \E a, b \in Reqs :
     /\ settled[a] = <<"error">> /\ chatCalls[a] = 0
     /\ responses[a] = <<GenericFailure>>
     /\ settled[b] = <<"ok", "error">> /\ chatCalls[b] = 1
     /\ responses[b] = <<GenericFailure>>

----------------------------------------------------------------------------
(* C19 *)

\* the task of request r writes field f in this step
Writes(r, f) ==
  /\ Finishing(r)
  /\ writes'[r] = writes[r] + 1
  /\ Has(reqEvolution'[r].updated, f)

\* the key of ExtractedPreferences that evolveProfile merges into field f
ExtractedKey(f) ==
  IF f = "preferredHeroes" THEN "heroes"
  ELSE IF f = "preferredRoles" THEN "roles" ELSE f

\* the entries request r added to list f
Added(r, f) ==
  IF Has(reqEvolution[r].updated, f)
  THEN Range(reqEvolution[r].updated[f]) \ Range(snapshot[r][f])
  ELSE {}

\* C19: a background task evolves the snapshot its request loaded, not the
\* row as stored when it writes: the list it writes is the snapshot's list
\* extended, and it replaces the stored list whole, so every stored entry
\* that the snapshot lacks is gone after the write.  Two requests that
\* loaded the same snapshot can therefore lose the first writer's entry
\* (the witness).
C19_StaleWriteOverwrites ==
  [][\A r \in Reqs : \A f \in ListFields :
        Writes(r, f) =>
          /\ reqEvolution'[r] = evolveProfile(snapshot[r], reqExtracted'[r])
          /\ stored'[f] = reqEvolution'[r].updated[f]
          /\ IsPrefix(snapshot[r][f], stored'[f])
          /\ \A e \in Range(stored[f]) \ Range(snapshot[r][f]) :
               e \in Range(stored'[f]) => e \in Range(reqExtracted'[r][ExtractedKey(f)])]_vars

\* A and B loaded the same snapshot, both wrote preferredHeroes, and the
\* hero A added is absent from the stored list, which is B's
C19_Witness ==
  \E a, b \in Reqs :
     /\ a # b
     /\ snapshot[a] = snapshot[b]
     /\ writes[a] = 1 /\ writes[b] = 1
     /\ Added(a, "preferredHeroes") # {}
     /\ Has(reqEvolution[b].updated, "preferredHeroes")
     /\ stored.preferredHeroes = reqEvolution[b].updated["preferredHeroes"]
     /\ \A e \in Added(a, "preferredHeroes") : e \notin Range(stored.preferredHeroes)

----------------------------------------------------------------------------
(* C20 *)

\* the fields the evolution path never writes
ReservedFields == {"userId", "mmrBracket", "createdAt"}

\* C20: updateProfile, handed the record 'updated' of evolveProfile, changes
\* exactly the stored fields present in it, each to the value given, and
\* leaves every other field but updatedAt as it was; with an empty record
\* it changes nothing, updatedAt included; with a non-empty record it sets
\* updatedAt to the time of the write.  'updated' never holds userId,
\* mmrBracket, createdAt or updatedAt, and no step of the evolution path
\* alters userId, mmrBracket or createdAt.
C20_UpdateFrame ==
  /\ [][pc = "persist" =>
          LET partial == result.updated
          IN /\ (DOMAIN partial) \cap (ReservedFields \cup {"updatedAt"}) = {}
             /\ \A f \in DOMAIN partial :
                  current'[f] = partial[f] /\ current'[f] # current[f]
             /\ \A f \in (DOMAIN current) \ (DOMAIN partial \cup {"updatedAt"}) :
                  current'[f] = current[f]
             /\ DOMAIN partial = {} => current' = current
             /\ DOMAIN partial # {} => current'.updatedAt = step + 1]_vars
  /\ [][\A f \in ReservedFields : current'[f] = current[f]]_vars

\* a first round whose write set updatedAt, then a round whose empty record
\* left the profile, updatedAt included, as it was
C20_Witness ==
  /\ pc = "again"
  /\ step = 1
  /\ result.updated = EmptyRecord
  /\ current.updatedAt = 1
  /\ current.preferredHeroes # <<>>

----------------------------------------------------------------------------
(* C21 *)

Alternates(msgs) ==
  /\ \A i \in DOMAIN msgs : msgs[i].role \in {"user", "assistant"}
  /\ \A i \in 1..(Len(msgs) - 1) : msgs[i].role # msgs[i + 1].role

\* C21 as claimed: the messages array of every Anthropic request of a chat
\* request strictly alternates between user and assistant, whatever history
\* the client sent, one ending with an unanswered user turn included.
C21_WireAlternates == Alternates(wire)

----------------------------------------------------------------------------
(* C22 *)

\* the layouts with a fenced block, tagged json or not tagged, and those
\* without a block
FencedLayouts == {"fenced json", "fenced", "prose around fence", "two blocks"}
UnfencedLayouts == {"bare", "padded", "prose then document", "unclosed fence"}

\* the record extractPreferences returns for the bare document d
BareRecord(d) == extractPreferences(JSONparse(<<Documents[d].text>>))

\* C22: a reply with a fenced block, tagged json or not, gives the record
\* its first block's bare content gives, whatever text surrounds the block
\* or follows it; a reply without a fenced block is parsed whole, trimmed.
C22_FenceStripping ==
  (extractPc = "returned" /\ completion.kind = "ok") =>
     \A l \in DOMAIN Layouts : \A d \in DOMAIN Documents :
        completion.content = Layout(Layouts[l], Documents[d].text) =>
          /\ Layouts[l] \in FencedLayouts =>
               /\ parseResult = JSONparse(<<Documents[d].text>>)
               /\ returned = BareRecord(d)
          /\ Layouts[l] \in UnfencedLayouts =>
               /\ parseResult = JSONparse(trim(completion.content))
               /\ returned = extractPreferences(JSONparse(trim(completion.content)))

\* a reply of two fenced blocks whose first block holds roles
C22_Witness ==
  /\ extractPc = "returned"
  /\ \E d \in DOMAIN Documents :
       /\ completion = Completion(Layout("two blocks", Documents[d].text))
       /\ Has(BareRecord(d), "roles")
       /\ returned = BareRecord(d)

----------------------------------------------------------------------------
(* C23 *)

\* the background task of request r is over, by returning or by rejecting
BackgroundOver(r) == reqPc[r] \in {"done", "failed"}

\* C23: per request there is at most one extraction call, one search call,
\* one foreground llm.chat call, one evolution and one profile write; a
\* handler whose awaited call threw has responded, a background task whose
\* write threw has written nothing, and neither a handler that responded
\* nor a background task that is over takes another step or makes
\* another call.
C23_NothingRetried ==
  /\ [](\A r \in Reqs :
          /\ extractCalls[r] <= 1 /\ searchCalls[r] <= 1 /\ chatCalls[r] <= 1
          /\ evolutions[r] <= 1 /\ writes[r] <= 1
          /\ ForegroundFailed(r) => fgPc[r] = "responded"
          /\ reqPc[r] = "failed" => writes[r] = 0)
  /\ [][\A r \in Reqs :
          /\ BackgroundOver(r) =>
               /\ reqPc'[r] = reqPc[r]
               /\ extractCalls'[r] = extractCalls[r]
               /\ evolutions'[r] = evolutions[r]
               /\ writes'[r] = writes[r]
          /\ fgPc[r] = "responded" =>
               /\ fgPc'[r] = "responded"
               /\ searchCalls'[r] = searchCalls[r]
               /\ chatCalls'[r] = chatCalls[r]
               /\ settled'[r] = settled[r]]_vars

\* one request whose llm.chat call threw and whose background write threw,
\* another whose search threw and whose extraction gave nothing
C23_Witness ==
  \E a, b \in Reqs :
     /\ settled[a] = <<"ok", "error">> /\ searchCalls[a] = 1 /\ chatCalls[a] = 1
     /\ reqPc[a] = "failed" /\ extractCalls[a] = 1 /\ writes[a] = 0
     /\ settled[b] = <<"error">> /\ searchCalls[b] = 1 /\ chatCalls[b] = 0
     /\ reqPc[b] = "done" /\ extractCalls[b] = 1
     /\ reqExtracted[b] = EmptyRecord /\ writes[b] = 0

----------------------------------------------------------------------------
(* C24 *)

\* C24: the system message of a request is the one buildPrompt renders
\* from the snapshot the handler loaded at its start, whatever has been
\* stored since; the background task of the request evolves that same
\* snapshot; and the snapshot of a request never changes once loaded.
C24_PromptFromSnapshot ==
  /\ [](\A r \in Reqs :
          /\ chatMessages[r] # <<>> =>
               chatMessages[r][1] =
                 buildPrompt(messageOf(reqBody[r]), serpResults[r], snapshot[r]).systemMessage
          /\ reqEvolution[r] # NoResult =>
               reqEvolution[r] = evolveProfile(snapshot[r], reqExtracted[r]))
  /\ [][\A r \in Reqs : fgPc[r] # "idle" => snapshot'[r] = snapshot[r]]_vars

\* the background task of a request has stored the hero of its message,
\* and the request's system message is still the default prompt of its
\* empty snapshot
C24_Witness ==
  \E r \in Reqs :
     /\ snapshot[r] = DefaultProfile
     /\ writes[r] = 1
     /\ hasProfileData(stored)
     /\ chatMessages[r] # <<>>
     /\ chatMessages[r][1] = Msg("system", DefaultSystemPrompt)

----------------------------------------------------------------------------
(* C25 *)

\* the request was turned down by the validation of the handler
Rejected(r) == responses[r] \in {<<MessageRequired>>, <<SerpKeyMissing>>}

\* the response the validation asks for, <<>> for a request it lets pass
ValidationResponse(json) ==
  IF prop(json, "message").t # "string" THEN <<MessageRequired>>
  ELSE IF trim(prop(json, "message").v) = <<>> THEN <<MessageRequired>>
  ELSE IF serpApiKey = "" THEN <<SerpKeyMissing>>
  ELSE <<>>

\* C25: a request with a blank or non-string message is answered 400, one
\* with a proper message 500 when the search key is missing; such a
\* request reads no profile, starts no background task, makes no search
\* and no llm.chat call and writes no notes, and the step that rejects it
\* changes nothing of the profile store or of the background tasks.
C25_RejectedNoEffects ==
  /\ [](\A r \in Reqs :
          /\ (fgPc[r] # "idle" /\ ValidationResponse(reqBody[r]) # <<>>) =>
               responses[r] = ValidationResponse(reqBody[r])
          /\ Rejected(r) =>
               /\ ValidationResponse(reqBody[r]) = responses[r]
               /\ MessageRequired.status = 400 /\ SerpKeyMissing.status = 500
               /\ reqPc[r] = "idle"
               /\ extractCalls[r] = 0 /\ searchCalls[r] = 0 /\ chatCalls[r] = 0
               /\ evolutions[r] = 0 /\ writes[r] = 0 /\ notes[r] = 0
               /\ chatMessages[r] = <<>> /\ serpResults[r] = <<>>)
  /\ [][\A r \in Reqs :
          (fgPc[r] = "idle" /\ Rejected(r)') => chatVars' = chatVars]_vars

\* a request with a non-string message rejected, in a run where another
\* request's background task stored a hero
C25_Witness ==
  \E a, b \in Reqs :
     /\ reqBody[a] = Obj1("message", JNumber)
     /\ responses[a] = <<MessageRequired>>
     /\ writes[b] = 1
     /\ hasProfileData(stored)

----------------------------------------------------------------------------
(* C26 *)

\* a step of the handler of request r after its first await
HandlerResumes(r) == fgPc[r] \in {"searching", "chatting"} /\ fgPc'[r] # fgPc[r]

\* some reply to the pending extraction call of request r makes its task
\* write the profile
CanCommit(r) ==
  /\ reqPc[r] = "extracting"
  /\ \E rep \in HandlerReplies :
       /\ hasPreferences(extractPreferences(rep))
       /\ Len(evolveProfile(snapshot[r], extractPreferences(rep)).changes) > 0

\* C26: when searchWeb has been called for a request with a profile, the
\* extraction call of its background task has been made; no later step of
\* the handler, the failing ones included, touches a background task or
\* the stored profile, so a task pending when its request is answered
\* with the failure is still pending afterwards; and a task pending
\* after that answer can still write the profile.
C26_BackgroundSurvivesFailure ==
  /\ [](\A r \in Reqs :
          /\ searchCalls[r] = 1 =>
               /\ snapshot[r] # NoProfile => extractCalls[r] = 1
               /\ snapshot[r] = NoProfile => (extractCalls[r] = 0 /\ reqPc[r] = "done")
          /\ (ForegroundFailed(r) /\ reqPc[r] = "extracting"
                 /\ snapshot[r].preferredHeroes = <<>>) => CanCommit(r))
  /\ [][\A r \in Reqs : HandlerResumes(r) => chatVars' = chatVars]_vars

\* the llm.chat call of one request failed while its task is still pending
\* and able to write; the search of another failed and its task has
\* stored its update
C26_Witness ==
  \E a, b \in Reqs :
     /\ settled[a] = <<"ok", "error">> /\ responses[a] = <<GenericFailure>>
     /\ CanCommit(a)
     /\ settled[b] = <<"error">> /\ responses[b] = <<GenericFailure>>
     /\ reqPc[b] = "done" /\ writes[b] = 1
     /\ hasProfileData(stored)

----------------------------------------------------------------------------
(* C27 *)

\* the system message of request r is the personalized prompt of its snapshot
Personalized(r) ==
  /\ snapshot[r] # NoProfile
  /\ chatMessages[r][1] = Msg("system", buildPersonalizedPrompt(snapshot[r]))

\* C27: while the table has no row for the user, every accepted request
\* gets null from getProfile, its background task is over at once without
\* an extraction call, an evolution or a write, and the table still has no
\* row after any step; the system message of a request is the personalized
\* prompt exactly when its profile exists and hasProfileData holds for it,
\* and the default prompt otherwise.
C27_NoRowNoTask ==
  /\ [](\A r \in Reqs :
          /\ stored = NoRow =>
               /\ extractCalls[r] = 0 /\ evolutions[r] = 0 /\ writes[r] = 0
               /\ reqPc[r] \in {"idle", "done"}
               /\ searchCalls[r] = 1 => (snapshot[r] = NoProfile /\ reqPc[r] = "done")
          /\ chatMessages[r] # <<>> =>
               /\ Personalized(r) <=>
                    (snapshot[r] # NoProfile /\ hasProfileData(snapshot[r]))
               /\ (~ Personalized(r)) =>
                    chatMessages[r][1] = Msg("system", DefaultSystemPrompt))
  /\ [][stored = NoRow => stored' = NoRow]_vars

\* without a row, a request was answered from the default prompt and its
\* background task is over without a call
C27_Witness ==
  \E r \in Reqs :
     /\ stored = NoRow
     /\ snapshot[r] = NoProfile
     /\ reqPc[r] = "done" /\ extractCalls[r] = 0
     /\ chatMessages[r] # <<>>
     /\ chatMessages[r][1] = Msg("system", DefaultSystemPrompt)
     /\ responses[r] # <<>> /\ responses[r][1].status = 200

----------------------------------------------------------------------------
(* C28 *)

\* the search of request r succeeded
SearchSucceeded(r) == settled[r] # <<>> /\ settled[r][1] = "ok"

\* C28: a request whose search succeeded without results is answered 200
\* with the canned answer and no citations, without an llm.chat call and
\* without notes; llm.chat is called only after a search that succeeded
\* with at least one result, each of which was written to the notes; and
\* the citations of an answer are the title and url of the search results,
\* one for one and in their order.
C28_EmptySearchCanned ==
  \A r \in Reqs :
     /\ (SearchSucceeded(r) /\ serpResults[r] = <<>>) =>
          /\ responses[r] = <<NoSources>>
          /\ NoSources.status = 200 /\ NoSources.body.citations = <<>>
          /\ chatCalls[r] = 0 /\ notes[r] = 0 /\ chatMessages[r] = <<>>
     /\ responses[r] = <<NoSources>> => (SearchSucceeded(r) /\ serpResults[r] = <<>>)
     /\ chatCalls[r] > 0 =>
          /\ SearchSucceeded(r)
          /\ Len(serpResults[r]) >= 1
          /\ notes[r] = Len(serpResults[r])
          /\ \E i \in DOMAIN SerpResponses :
               /\ searchWeb(SerpResponses[i]).kind = "ok"
               /\ serpResults[r] = searchWeb(SerpResponses[i]).results
     /\ (responses[r] # <<>> /\ "answer" \in DOMAIN responses[r][1].body
           /\ responses[r] # <<NoSources>>) =>
          LET cited == responses[r][1].body.citations
          IN /\ Len(cited) = Len(serpResults[r])
             /\ \A i \in DOMAIN cited :
                  /\ cited[i].title = serpResults[r][i].title
                  /\ cited[i].url = serpResults[r][i].url

\* one request answered with the canned answer, another with an answer
\* citing both results of its search
C28_Witness ==
  \E a, b \in Reqs :
     /\ responses[a] = <<NoSources>> /\ chatCalls[a] = 0
     /\ responses[b] # <<>> /\ responses[b][1].status = 200
     /\ chatCalls[b] = 1
     /\ Len(serpResults[b]) = 2
     /\ Len(responses[b][1].body.citations) = 2

----------------------------------------------------------------------------
(* C29 *)

\* the client sent entry e with the role assistant
SentAssistant(e) ==
  e.t = "object" /\ "role" \in DOMAIN e.v /\ e.v["role"] = JString("assistant")

\* the history of the body as the client sent it, [] when it is not an array
ClientHistory == IF prop(uiRequest, "history").t = "array"
                 THEN prop(uiRequest, "history").v ELSE <<>>

\* C29: whatever history the client put into the body, the messages handed
\* to llm.chat are one system message, then one message per history entry
\* in the client's order, with role assistant where the client sent
\* assistant and user everywhere else, then the user message built from
\* the question; no message but the first has the role system.
C29_MessageSequence ==
  uiPc \in {"called", "sent"} =>
     LET m == gatewayMessages
         h == ClientHistory
     IN /\ Len(m) = Len(h) + 2
        /\ m[1].role = "system"
        /\ \A i \in 2..Len(m) : m[i].role # "system"
        /\ m[Len(m)].role = "user"
        /\ IsPrefix(<<"Question: ">> \o prop(uiRequest, "message").v,
                    m[Len(m)].content)
        /\ \A i \in DOMAIN h :
             m[i + 1].role = IF SentAssistant(h[i]) THEN "assistant" ELSE "user"

\* a history of a system entry and an assistant entry: the system entry is
\* handed on as a user message
C29_Witness ==
  /\ uiPc = "called"
  /\ Len(ClientHistory) = 2
  /\ prop(ClientHistory[1], "role") = JString("system")
  /\ SentAssistant(ClientHistory[2])
  /\ Len(gatewayMessages) = 4
  /\ gatewayMessages[2].role = "user"
  /\ gatewayMessages[3].role = "assistant"

====
